---- MODULE Spec2Model ----
(***************************************************************************)
(* Role/permission engine, user administration endpoints and the           *)
(* self-referential asset tree of the solar-platform backend.              *)
(*                                                                         *)
(* Python values are encoded as follows.  An Optional[...] value is a      *)
(* sequence: <<>> is None and <<v>> is the value v.  A pydantic patch      *)
(* (dict(exclude_unset=True)) is a function whose DOMAIN is the set of     *)
(* supplied fields.  A call outcome is a record carrying the exception     *)
(* that escaped it ("none" when it returned).  An HTTP response is a       *)
(* record [status, detail]; an exception nobody catches is status 500.     *)
(***************************************************************************)
EXTENDS Integers, Sequences, FiniteSets, TLC

VARIABLES
    users,          \* table users: sequence of rows, the row's id is its index
    assets,         \* table assets: function id -> row
    nextAssetId,    \* the assets.id serial
    sensors,        \* table asset_sensors: function id -> row
    nextSensorId,   \* the asset_sensors.id serial
    req,            \* the HTTP request being served (NoReq when idle)
    resp,           \* the response of the request being served (NoResp until handled)
    walk,           \* local variables of a running get_asset_ancestors loop
    call,           \* the last direct call of a PermissionChecker function
    templates,      \* table asset_templates: function id -> row
    locations,      \* table locations: function id -> row
    threads,        \* the requests served concurrently: thread -> its position
    items,          \* table asset_items: function id -> row
    inventories,    \* table store_inventory: function id -> row
    serials         \* the id serials of locations, asset_templates, asset_items
                    \* and store_inventory: table name -> next id

vars == <<users, assets, nextAssetId, sensors, nextSensorId, req, resp, walk, call,
          templates, locations, threads, items, inventories, serials>>

-----------------------------------------------------------------------------
(* Bounds of the model *)

MaxUsers == 2
MaxAssets == 3
MaxSensors == 1
MaxWalk == 4
MaxThreads == 2
MaxLocations == 1
MaxTemplates == 1
MaxRefAssets == 1
MaxLogins == 2

\* The number of store inventory rows the clients create.
MaxInventories == 2

\* The number of asset items the clients deploy.
MaxItems == 1

\* The number of assets that requests served at the same time create, move and
\* delete.
MaxRaceAssets == 3

-----------------------------------------------------------------------------
(* Python helpers *)

PyNone == <<>>

Some(v) == <<v>>

\* bool(x) of an Optional[int]: None and 0 are falsy
TruthyInt(x) == x # PyNone /\ x[1] # 0

\* bool(x) of an Optional[str]: None and "" are falsy
TruthyStr(x) == x # PyNone /\ x[1] # ""

\* dict.get(key, default)
DictGet(d, key, default) == IF key \in DOMAIN d THEN d[key] ELSE default

\* A dict (a JSON object, a body with the fields the client supplied) is a
\* function from its keys to their values; this is the one without keys.
EmptyDict == [k \in {} |-> 0]

SeqToSet(s) == {s[i] : i \in DOMAIN s}

\* The value of a field of a pydantic body, None when the client left it out.
Field(body, f) == DictGet(body, f, PyNone)

-----------------------------------------------------------------------------
(* app/models/user.py *)

UserRole ==
    << "super_admin", "admin", "plant_manager", "site_supervisor", "technician",
       "operator", "analyst", "viewer", "customer", "contractor" >>

Roles == SeqToSet(UserRole)

UserStatus == {"active", "inactive", "suspended", "pending"}

-----------------------------------------------------------------------------
(* app/core/permissions.py *)

Permission ==
    { "user:read", "user:create", "user:update", "user:delete", "user:admin",
      "asset:read", "asset:create", "asset:update", "asset:delete", "asset:assign",
      "asset:maintenance",
      "work_order:read", "work_order:create", "work_order:update", "work_order:delete",
      "work_order:assign", "work_order:approve", "work_order:close",
      "analytics:read", "analytics:advanced", "report:generate", "report:export",
      "dashboard:customize",
      "system:config", "system:maintenance", "audit:read",
      "plant:manage", "site:supervise",
      "realtime:monitor", "realtime:control", "alarm:manage" }

ROLE_PERMISSIONS ==
    [ super_admin |->
        { "user:read", "user:create", "user:update", "user:delete", "user:admin",
          "asset:read", "asset:create", "asset:update", "asset:delete", "asset:assign",
          "asset:maintenance",
          "work_order:read", "work_order:create", "work_order:update",
          "work_order:delete", "work_order:assign", "work_order:approve",
          "work_order:close",
          "analytics:read", "analytics:advanced", "report:generate", "report:export",
          "dashboard:customize",
          "system:config", "system:maintenance", "audit:read",
          "plant:manage", "site:supervise",
          "realtime:monitor", "realtime:control", "alarm:manage" },
      admin |->
        { "user:read", "user:create", "user:update", "user:admin",
          "asset:read", "asset:create", "asset:update", "asset:assign",
          "asset:maintenance",
          "work_order:read", "work_order:create", "work_order:update",
          "work_order:assign", "work_order:approve", "work_order:close",
          "analytics:read", "analytics:advanced", "report:generate", "report:export",
          "dashboard:customize",
          "audit:read", "plant:manage",
          "realtime:monitor", "realtime:control", "alarm:manage" },
      plant_manager |->
        { "user:read",
          "asset:read", "asset:update", "asset:assign", "asset:maintenance",
          "work_order:read", "work_order:create", "work_order:update",
          "work_order:assign", "work_order:approve", "work_order:close",
          "analytics:read", "analytics:advanced", "report:generate", "report:export",
          "dashboard:customize",
          "plant:manage", "site:supervise",
          "realtime:monitor", "realtime:control", "alarm:manage" },
      site_supervisor |->
        { "user:read",
          "asset:read", "asset:update", "asset:maintenance",
          "work_order:read", "work_order:create", "work_order:update",
          "work_order:assign", "work_order:close",
          "analytics:read", "report:generate", "dashboard:customize",
          "site:supervise",
          "realtime:monitor", "alarm:manage" },
      technician |->
        { "user:read",
          "asset:read", "asset:maintenance",
          "work_order:read", "work_order:create", "work_order:update",
          "analytics:read", "dashboard:customize",
          "realtime:monitor" },
      operator |->
        { "user:read",
          "asset:read",
          "work_order:read", "work_order:create",
          "analytics:read", "dashboard:customize",
          "realtime:monitor", "realtime:control", "alarm:manage" },
      analyst |->
        { "user:read",
          "asset:read",
          "work_order:read",
          "analytics:read", "analytics:advanced", "report:generate", "report:export",
          "dashboard:customize",
          "realtime:monitor" },
      viewer |->
        { "user:read",
          "asset:read",
          "work_order:read",
          "analytics:read", "dashboard:customize",
          "realtime:monitor" },
      customer |->
        { "asset:read", "analytics:read", "dashboard:customize", "realtime:monitor" },
      contractor |->
        { "asset:read", "work_order:read", "work_order:update", "realtime:monitor" } ]

\* Mutant of has_permission: indexes the table instead of .get(role, set()),
\* so every role without an entry is treated as holding everything.
has_permission_open(user_role, permission) ==
    IF user_role \in DOMAIN ROLE_PERMISSIONS
    THEN permission \in ROLE_PERMISSIONS[user_role]
    ELSE TRUE

\* PermissionChecker.has_permission
has_permission(user_role, permission) ==
    permission \in DictGet(ROLE_PERMISSIONS, user_role, {})

\* PermissionChecker.get_user_permissions
get_user_permissions(user_role) ==
    DictGet(ROLE_PERMISSIONS, user_role, {})

\* Permission(value): the enum lookup by value, ValueError when there is no member
PermissionByValue(value) ==
    IF value \in Permission
    THEN [exc |-> "none", value |-> value]
    ELSE [exc |-> "ValueError", value |-> value]

\* Mutant of can_access_resource: the try/except ValueError is missing.
can_access_resource_uncaught(user_role, resource, action) ==
    LET permission_str == resource \o ":" \o action
        permission == PermissionByValue(permission_str)
    IN  IF permission.exc = "none"
        THEN [exc |-> "none", ret |-> has_permission(user_role, permission.value)]
        ELSE [exc |-> permission.exc, ret |-> FALSE]

\* PermissionChecker.can_access_resource
can_access_resource(user_role, resource, action) ==
    LET permission_str == resource \o ":" \o action
        permission == PermissionByValue(permission_str)
    IN  IF permission.exc = "none"
        THEN [exc |-> "none", ret |-> has_permission(user_role, permission.value)]
        ELSE IF permission.exc = "ValueError"
             THEN [exc |-> "none", ret |-> FALSE]
             ELSE [exc |-> permission.exc, ret |-> FALSE]

\* Mutant of get_manageable_roles: admin may also manage admin.
get_manageable_roles_admin_peer(user_role) ==
    IF user_role = "super_admin" THEN UserRole
    ELSE IF user_role = "admin" THEN
        << "admin", "plant_manager", "site_supervisor", "technician",
           "operator", "analyst", "viewer", "customer", "contractor" >>
    ELSE IF user_role = "plant_manager" THEN
        << "site_supervisor", "technician", "operator" >>
    ELSE IF user_role = "site_supervisor" THEN << "technician" >>
    ELSE << >>

\* PermissionChecker.get_manageable_roles
get_manageable_roles(user_role) ==
    IF user_role = "super_admin" THEN UserRole
    ELSE IF user_role = "admin" THEN
        << "plant_manager", "site_supervisor", "technician",
           "operator", "analyst", "viewer", "customer", "contractor" >>
    ELSE IF user_role = "plant_manager" THEN
        << "site_supervisor", "technician", "operator" >>
    ELSE IF user_role = "site_supervisor" THEN << "technician" >>
    ELSE << >>

-----------------------------------------------------------------------------
(* HTTP plumbing shared by the endpoints *)

NoReq == [op |-> "none"]

NoResp == [status |-> 0, detail |-> ""]

Response(status, detail) == [status |-> status, detail |-> detail]

Idle == req = NoReq

Pending == req # NoReq /\ resp = NoResp

Done == req # NoReq /\ resp # NoResp

\* app/api/deps.py get_current_active_user, applied to the row get_current_user
\* loaded for the token's user id: PyNone when the dependency lets the request in.
get_current_active_user(current_user) ==
    IF ~current_user.is_active
    THEN Some(Response(400, "Inactive user"))
    ELSE PyNone

-----------------------------------------------------------------------------
(* app/crud/crud_user.py *)

\* The statuses, e-mail addresses and user ids the modelled requests carry.

StatusIn == { PyNone, Some("active"), Some("suspended") }

\* An address some user already has (the seeded one) and the next free one.
Emails == {1, Len(users) + 1}

UserIds == 1 .. (MaxUsers + 1)

\* crud_user.get_user
get_user(db_users, user_id) ==
    IF user_id \in DOMAIN db_users THEN Some(user_id) ELSE PyNone

\* crud_user.get_user_by_email
get_user_by_email(db_users, email) ==
    IF \E i \in DOMAIN db_users : db_users[i].email = email
    THEN Some(CHOOSE i \in DOMAIN db_users : db_users[i].email = email)
    ELSE PyNone

\* app/core/security.py: a bcrypt hash is not the password, and verify accepts
\* exactly the password the hash was made from.
get_password_hash(password) == <<"bcrypt", password>>

verify_password(plain_password, hashed_password) ==
    hashed_password = get_password_hash(plain_password)

\* crud_user.create_user: the ValueError of a taken email, else the inserted row.
\* Requests carry no username and no employee_id, so those two checks pass,
\* and the password "secret".
create_user(db_users, email, role) ==
    IF get_user_by_email(db_users, email) # PyNone
    THEN [exc |-> "ValueError", users |-> db_users]
    ELSE [exc |-> "none",
          users |-> Append(db_users,
                           [email |-> email, role |-> role,
                            status |-> "active", is_active |-> TRUE,
                            deleted_at |-> PyNone,
                            hashed_password |-> get_password_hash("secret"),
                            login_count |-> 0, failed_login_attempts |-> 0,
                            last_login |-> PyNone])]

\* update_user_role as it would act if it set the status and left is_active
\* as it was.
update_user_role_status_only(db_users, user_id, role, status) ==
    IF get_user(db_users, user_id) = PyNone THEN db_users
    ELSE [db_users EXCEPT
            ![user_id].role = role,
            ![user_id].status = IF status # PyNone THEN status[1] ELSE @]

\* crud_user.update_user_role
update_user_role(db_users, user_id, role, status) ==
    IF get_user(db_users, user_id) = PyNone THEN db_users
    ELSE [db_users EXCEPT
            ![user_id].role = role,
            ![user_id].status = IF status # PyNone THEN status[1] ELSE @,
            ![user_id].is_active = IF status # PyNone THEN status[1] = "active" ELSE @]

\* crud_user.soft_delete_user: deleted_at takes the time of the call, here
\* the one value "utcnow".
soft_delete_user(db_users, user_id) ==
    IF get_user(db_users, user_id) = PyNone THEN db_users
    ELSE [db_users EXCEPT
            ![user_id].deleted_at = Some("utcnow"),
            ![user_id].is_active = FALSE,
            ![user_id].status = "inactive"]

\* crud_user.restore_user
restore_user(db_users, user_id) ==
    IF user_id \notin DOMAIN db_users THEN db_users
    ELSE [db_users EXCEPT
            ![user_id].deleted_at = PyNone,
            ![user_id].is_active = TRUE,
            ![user_id].status = "active"]

\* users.email is unique (models/user.py, class User).
UserConstraints(db_users) ==
    \A i, j \in DOMAIN db_users : i # j => db_users[i].email # db_users[j].email

\* crud_user.update_user: setattr of every field the body supplied, then the
\* commit, which the unique index of users.email may refuse.
update_user(db_users, user_id, user_update) ==
    IF get_user(db_users, user_id) = PyNone
    THEN [exc |-> "none", users |-> db_users]
    ELSE LET old  == db_users[user_id]
             made == [db_users EXCEPT ![user_id] =
                        [f \in DOMAIN old |-> DictGet(user_update, f, old[f])]]
         IN  IF UserConstraints(made)
             THEN [exc |-> "none", users |-> made]
             ELSE [exc |-> "IntegrityError", users |-> db_users]

\* authenticate_user as it would act if it counted a login once per user
\* instead of once per call.
authenticate_user_counts_first_login(db_users, email, password) ==
    LET user == get_user_by_email(db_users, email)
    IN  IF user = PyNone THEN [users |-> db_users, ret |-> PyNone]
        ELSE IF ~verify_password(password, db_users[user[1]].hashed_password)
        THEN [users |-> db_users, ret |-> PyNone]
        ELSE [users |-> [db_users EXCEPT
                           ![user[1]].last_login = Some("utcnow"),
                           ![user[1]].login_count = 1,
                           ![user[1]].failed_login_attempts = 0],
              ret |-> user]

\* crud_user.authenticate_user: the id of the user, None for an unknown email
\* or a wrong password; last_login takes the time of the call.
authenticate_user(db_users, email, password) ==
    LET user == get_user_by_email(db_users, email)
    IN  IF user = PyNone THEN [users |-> db_users, ret |-> PyNone]
        ELSE IF ~verify_password(password, db_users[user[1]].hashed_password)
        THEN [users |-> db_users, ret |-> PyNone]
        ELSE [users |-> [db_users EXCEPT
                           ![user[1]].last_login = Some("utcnow"),
                           ![user[1]].login_count = @ + 1,
                           ![user[1]].failed_login_attempts = 0],
              ret |-> user]

-----------------------------------------------------------------------------
(* app/api/v1/endpoints/user.py *)

\* POST /users/ : create_new_user
create_new_user(r) ==
    LET current_user == users[r.caller]
        denied == get_current_active_user(current_user)
    IN  IF denied # PyNone THEN [users |-> users, resp |-> denied[1]]
        ELSE IF ~has_permission(current_user.role, "user:create")
        THEN [users |-> users,
              resp |-> Response(403, "Not enough permissions to create users")]
        ELSE IF get_user_by_email(users, r.email) # PyNone
        THEN [users |-> users,
              resp |-> Response(400, "A user with this email already exists")]
        ELSE IF r.role \notin SeqToSet(get_manageable_roles(current_user.role))
        THEN [users |-> users,
              resp |-> Response(403, "Cannot create user with role")]
        ELSE LET made == create_user(users, r.email, r.role)
             IN  IF made.exc = "ValueError"
                 THEN [users |-> users, resp |-> Response(400, "ValueError")]
                 ELSE [users |-> made.users,
                       resp |-> Response(201, "User created successfully")]

\* Mutant of update_user_role_by_id: the USER_ADMIN permission check is missing.
update_user_role_by_id_no_admin_check(r) ==
    LET current_user == users[r.caller]
        denied == get_current_active_user(current_user)
    IN  IF denied # PyNone THEN [users |-> users, resp |-> denied[1]]
        ELSE IF get_user(users, r.user_id) = PyNone
        THEN [users |-> users, resp |-> Response(404, "User not found")]
        ELSE IF r.role \notin SeqToSet(get_manageable_roles(current_user.role))
        THEN [users |-> users, resp |-> Response(403, "Cannot assign role")]
        ELSE IF r.user_id = r.caller
        THEN [users |-> users, resp |-> Response(400, "Cannot change your own role")]
        ELSE [users |-> update_user_role(users, r.user_id, r.role, r.status),
              resp |-> Response(200, "User role updated successfully")]

\* Mutant of update_user_role_by_id: the manageable-roles check is missing.
update_user_role_by_id_any_role(r) ==
    LET current_user == users[r.caller]
        denied == get_current_active_user(current_user)
    IN  IF denied # PyNone THEN [users |-> users, resp |-> denied[1]]
        ELSE IF ~has_permission(current_user.role, "user:admin")
        THEN [users |-> users,
              resp |-> Response(403, "Not enough permissions to update user roles")]
        ELSE IF get_user(users, r.user_id) = PyNone
        THEN [users |-> users, resp |-> Response(404, "User not found")]
        ELSE IF r.user_id = r.caller
        THEN [users |-> users, resp |-> Response(400, "Cannot change your own role")]
        ELSE [users |-> update_user_role(users, r.user_id, r.role, r.status),
              resp |-> Response(200, "User role updated successfully")]

\* Mutant of update_user_role_by_id: the own-role guard is missing.
update_user_role_by_id_no_self_guard(r) ==
    LET current_user == users[r.caller]
        denied == get_current_active_user(current_user)
    IN  IF denied # PyNone THEN [users |-> users, resp |-> denied[1]]
        ELSE IF ~has_permission(current_user.role, "user:admin")
        THEN [users |-> users,
              resp |-> Response(403, "Not enough permissions to update user roles")]
        ELSE IF get_user(users, r.user_id) = PyNone
        THEN [users |-> users, resp |-> Response(404, "User not found")]
        ELSE IF r.role \notin SeqToSet(get_manageable_roles(current_user.role))
        THEN [users |-> users, resp |-> Response(403, "Cannot assign role")]
        ELSE [users |-> update_user_role(users, r.user_id, r.role, r.status),
              resp |-> Response(200, "User role updated successfully")]

\* PUT /users/{user_id}/role : update_user_role_by_id
update_user_role_by_id(r) ==
    LET current_user == users[r.caller]
        denied == get_current_active_user(current_user)
    IN  IF denied # PyNone THEN [users |-> users, resp |-> denied[1]]
        ELSE IF ~has_permission(current_user.role, "user:admin")
        THEN [users |-> users,
              resp |-> Response(403, "Not enough permissions to update user roles")]
        ELSE IF get_user(users, r.user_id) = PyNone
        THEN [users |-> users, resp |-> Response(404, "User not found")]
        ELSE IF r.role \notin SeqToSet(get_manageable_roles(current_user.role))
        THEN [users |-> users, resp |-> Response(403, "Cannot assign role")]
        ELSE IF r.user_id = r.caller
        THEN [users |-> users, resp |-> Response(400, "Cannot change your own role")]
        ELSE [users |-> update_user_role(users, r.user_id, r.role, r.status),
              resp |-> Response(200, "User role updated successfully")]

\* Mutant of delete_user: the own-account guard is missing.
delete_user_no_self_guard(r) ==
    LET current_user == users[r.caller]
        denied == get_current_active_user(current_user)
    IN  IF denied # PyNone THEN [users |-> users, resp |-> denied[1]]
        ELSE IF ~has_permission(current_user.role, "user:delete")
        THEN [users |-> users,
              resp |-> Response(403, "Not enough permissions to delete users")]
        ELSE IF get_user(users, r.user_id) = PyNone
        THEN [users |-> users, resp |-> Response(404, "User not found")]
        ELSE IF /\ users[r.user_id].role = "super_admin"
                /\ current_user.role # "super_admin"
        THEN [users |-> users,
              resp |-> Response(403, "Cannot delete super admin user")]
        ELSE [users |-> soft_delete_user(users, r.user_id),
              resp |-> Response(200, "User deleted successfully")]

\* DELETE /users/{user_id} : delete_user
delete_user(r) ==
    LET current_user == users[r.caller]
        denied == get_current_active_user(current_user)
    IN  IF denied # PyNone THEN [users |-> users, resp |-> denied[1]]
        ELSE IF ~has_permission(current_user.role, "user:delete")
        THEN [users |-> users,
              resp |-> Response(403, "Not enough permissions to delete users")]
        ELSE IF get_user(users, r.user_id) = PyNone
        THEN [users |-> users, resp |-> Response(404, "User not found")]
        ELSE IF r.user_id = r.caller
        THEN [users |-> users,
              resp |-> Response(400, "Cannot delete your own account")]
        ELSE IF /\ users[r.user_id].role = "super_admin"
                /\ current_user.role # "super_admin"
        THEN [users |-> users,
              resp |-> Response(403, "Cannot delete super admin user")]
        ELSE [users |-> soft_delete_user(users, r.user_id),
              resp |-> Response(200, "User deleted successfully")]

\* A client holding a valid token sends a user-administration request.
ReceiveUserRequest ==
    /\ Idle
    /\ \E caller \in DOMAIN users :
          \/ \E email \in Emails, role \in Roles :
                LET r == [op |-> "create_new_user", caller |-> caller,
                          email |-> email, role |-> role]
                IN  \* the users table holds at most MaxUsers rows
                    /\ Len(create_new_user(r).users) <= MaxUsers
                    /\ req' = r
          \/ \E user_id \in UserIds, role \in Roles, status \in StatusIn :
                req' = [op |-> "update_user_role_by_id", caller |-> caller,
                        user_id |-> user_id, role |-> role, status |-> status]
    /\ UNCHANGED <<users, assets, nextAssetId, sensors, nextSensorId, resp,
                   walk, call, templates, locations, threads, items,
                   inventories, serials>>

CreateNewUser ==
    /\ Pending
    /\ req.op = "create_new_user"
    /\ LET out == create_new_user(req)
       IN  users' = out.users /\ resp' = out.resp
    /\ UNCHANGED <<assets, nextAssetId, sensors, nextSensorId, req, walk, call,
                   templates, locations, threads, items, inventories, serials>>

UpdateUserRoleById ==
    /\ Pending
    /\ req.op = "update_user_role_by_id"
    /\ LET out == update_user_role_by_id(req)
       IN  users' = out.users /\ resp' = out.resp
    /\ UNCHANGED <<assets, nextAssetId, sensors, nextSensorId, req, walk, call,
                   templates, locations, threads, items, inventories, serials>>

\* A client holding a valid token asks for a new user.
ReceiveCreateUserRequest ==
    /\ Idle
    /\ \E caller \in DOMAIN users, email \in Emails, role \in Roles :
          LET r == [op |-> "create_new_user", caller |-> caller,
                    email |-> email, role |-> role]
          IN  \* the users table holds at most MaxUsers rows
              /\ Len(create_new_user(r).users) <= MaxUsers
              /\ req' = r
    /\ UNCHANGED <<users, assets, nextAssetId, sensors, nextSensorId, resp,
                   walk, call, templates, locations, threads, items,
                   inventories, serials>>

\* A client holding a valid token asks for the deletion of a user.
ReceiveDeleteUserRequest ==
    /\ Idle
    /\ \E caller \in DOMAIN users, user_id \in UserIds :
          req' = [op |-> "delete_user", caller |-> caller, user_id |-> user_id]
    /\ UNCHANGED <<users, assets, nextAssetId, sensors, nextSensorId, resp,
                   walk, call, templates, locations, threads, items,
                   inventories, serials>>

DeleteUser ==
    /\ Pending
    /\ req.op = "delete_user"
    /\ LET out == delete_user(req)
       IN  users' = out.users /\ resp' = out.resp
    /\ UNCHANGED <<assets, nextAssetId, sensors, nextSensorId, req, walk, call,
                   templates, locations, threads, items, inventories, serials>>

\* POST /auth/login/access-token : login_access_token.  authenticate_user has
\* committed when the handler looks at is_active.
login_access_token(r) ==
    LET out == authenticate_user(users, r.username, r.password)
    IN  IF out.ret = PyNone
        THEN [users |-> out.users,
              resp |-> Response(401, "Incorrect email or password")]
        ELSE IF ~out.users[out.ret[1]].is_active
        THEN [users |-> out.users, resp |-> Response(400, "Inactive user")]
        ELSE [users |-> out.users, resp |-> Response(200, "bearer")]

\* The roles and the bodies the direct calls of crud_user carry.
CrudRoleIn == {"viewer", "technician"}

UserUpdateIn == {EmptyDict} \cup {[email |-> e] : e \in Emails}

PasswordIn == {"secret", "wrong"}

\* Code that holds a session calls create_user, update_user or
\* update_user_role of crud_user itself.
ReceiveCrudUserCall ==
    /\ Idle
    /\ \/ /\ Len(users) < MaxUsers
          /\ \E email \in Emails, role \in CrudRoleIn :
                req' = [op |-> "crud_user.create_user", email |-> email,
                        role |-> role]
       \/ \E user_id \in UserIds, user_update \in UserUpdateIn :
             req' = [op |-> "crud_user.update_user", user_id |-> user_id,
                     user_update |-> user_update]
       \/ \E user_id \in UserIds, role \in CrudRoleIn, status \in StatusIn :
             req' = [op |-> "crud_user.update_user_role", user_id |-> user_id,
                     role |-> role, status |-> status]
    /\ UNCHANGED <<users, assets, nextAssetId, sensors, nextSensorId, resp,
                   walk, call, templates, locations, threads, items,
                   inventories, serials>>

\* Code that holds a session calls soft_delete_user or restore_user itself.
ReceiveCrudDeletionCall ==
    /\ Idle
    /\ \E user_id \in UserIds :
          \/ req' = [op |-> "crud_user.soft_delete_user", user_id |-> user_id]
          \/ req' = [op |-> "crud_user.restore_user", user_id |-> user_id]
    /\ UNCHANGED <<users, assets, nextAssetId, sensors, nextSensorId, resp,
                   walk, call, templates, locations, threads, items,
                   inventories, serials>>

\* A client logs in, or code that holds a session calls authenticate_user.
ReceiveLoginRequest ==
    /\ Idle
    /\ \A i \in DOMAIN users : users[i].login_count < MaxLogins
    /\ \E username \in 1 .. (Len(users) + 1), password \in PasswordIn :
          \/ req' = [op |-> "login_access_token", username |-> username,
                     password |-> password]
          \/ req' = [op |-> "crud_user.authenticate_user", email |-> username,
                     password |-> password]
    /\ UNCHANGED <<users, assets, nextAssetId, sensors, nextSensorId, resp,
                   walk, call, templates, locations, threads, items,
                   inventories, serials>>

CrudCreateUser ==
    /\ Pending
    /\ req.op = "crud_user.create_user"
    /\ LET out == create_user(users, req.email, req.role)
       IN  /\ users' = out.users
           /\ resp' = IF out.exc # "none"
                       THEN [status |-> 500, detail |-> out.exc]
                       ELSE [status |-> 200, detail |-> "user",
                             user |-> Some(Len(out.users))]
    /\ UNCHANGED <<assets, nextAssetId, sensors, nextSensorId, req, walk, call,
                   templates, locations, threads, items, inventories, serials>>

CrudUpdateUser ==
    /\ Pending
    /\ req.op = "crud_user.update_user"
    /\ LET out == update_user(users, req.user_id, req.user_update)
       IN  /\ users' = out.users
           /\ resp' = IF out.exc # "none"
                       THEN [status |-> 500, detail |-> out.exc]
                       ELSE [status |-> 200, detail |-> "user",
                             user |-> get_user(users, req.user_id)]
    /\ UNCHANGED <<assets, nextAssetId, sensors, nextSensorId, req, walk, call,
                   templates, locations, threads, items, inventories, serials>>

CrudUpdateUserRole ==
    /\ Pending
    /\ req.op = "crud_user.update_user_role"
    /\ users' = update_user_role(users, req.user_id, req.role, req.status)
    /\ resp' = [status |-> 200, detail |-> "user",
                user |-> get_user(users, req.user_id)]
    /\ UNCHANGED <<assets, nextAssetId, sensors, nextSensorId, req, walk, call,
                   templates, locations, threads, items, inventories, serials>>

CrudSoftDeleteUser ==
    /\ Pending
    /\ req.op = "crud_user.soft_delete_user"
    /\ users' = soft_delete_user(users, req.user_id)
    /\ resp' = [status |-> 200, detail |-> "user",
                user |-> get_user(users, req.user_id)]
    /\ UNCHANGED <<assets, nextAssetId, sensors, nextSensorId, req, walk, call,
                   templates, locations, threads, items, inventories, serials>>

CrudRestoreUser ==
    /\ Pending
    /\ req.op = "crud_user.restore_user"
    /\ users' = restore_user(users, req.user_id)
    /\ resp' = [status |-> 200, detail |-> "user",
                user |-> get_user(users, req.user_id)]
    /\ UNCHANGED <<assets, nextAssetId, sensors, nextSensorId, req, walk, call,
                   templates, locations, threads, items, inventories, serials>>

CrudAuthenticateUser ==
    /\ Pending
    /\ req.op = "crud_user.authenticate_user"
    /\ LET out == authenticate_user(users, req.email, req.password)
       IN  /\ users' = out.users
           /\ resp' = [status |-> 200, detail |-> "user", user |-> out.ret]
    /\ UNCHANGED <<assets, nextAssetId, sensors, nextSensorId, req, walk, call,
                   templates, locations, threads, items, inventories, serials>>

LoginAccessToken ==
    /\ Pending
    /\ req.op = "login_access_token"
    /\ LET out == login_access_token(req)
       IN  users' = out.users /\ resp' = out.resp
    /\ UNCHANGED <<assets, nextAssetId, sensors, nextSensorId, req, walk, call,
                   templates, locations, threads, items, inventories, serials>>

\* The response is sent and the request's state is dropped.
Respond ==
    /\ Done
    /\ req' = NoReq
    /\ resp' = NoResp
    /\ UNCHANGED <<users, assets, nextAssetId, sensors, nextSensorId, walk,
                   call, templates, locations, threads, items, inventories,
                   serials>>

-----------------------------------------------------------------------------
(* app/models/asset.py and the constraints of its tables *)

\* The table t with row id set to row (an INSERT or an UPDATE of one row).
Put(t, id, row) ==
    [i \in DOMAIN t \cup {id} |-> IF i = id THEN row ELSE t[i]]

\* The table t without row id.
Remove(t, id) == [i \in DOMAIN t \ {id} |-> t[i]]

\* The constraints of the assets table as they would be if parent_id were a
\* plain integer column: only the unique index on code is left.
AssetConstraints_no_parent_key(db_assets) ==
    \A i, j \in DOMAIN db_assets :
       (i # j /\ db_assets[i].code # PyNone)
          => db_assets[i].code # db_assets[j].code

\* assets.parent_id is a foreign key to assets.id and assets.code is unique
\* among the rows that have one (models/asset.py, class Asset).
AssetConstraints(db_assets) ==
    /\ \A i \in DOMAIN db_assets :
          db_assets[i].parent_id # PyNone
             => db_assets[i].parent_id[1] \in DOMAIN db_assets
    /\ \A i, j \in DOMAIN db_assets :
          (i # j /\ db_assets[i].code # PyNone)
             => db_assets[i].code # db_assets[j].code

-----------------------------------------------------------------------------
\* assets.location_id and assets.template_id are foreign keys and
\* assets.asset_type is NOT NULL (models/asset.py, class Asset).
AssetForeignKeys(db_assets, db_locations, db_templates) ==
    \A i \in DOMAIN db_assets :
       /\ db_assets[i].location_id # PyNone
             => db_assets[i].location_id[1] \in DOMAIN db_locations
       /\ db_assets[i].template_id # PyNone
             => db_assets[i].template_id[1] \in DOMAIN db_templates
       /\ db_assets[i].asset_type # PyNone

\* class AssetType
AssetType == {"plant", "sub_plant", "inverter", "string", "panel", "sensor"}

\* bool() of an optional dict is False for None and for the empty dict.
TruthyDict(x) == x # PyNone /\ DOMAIN x[1] # {}

\* dict.copy(): a new dict with the same keys, each bound to the same value.
dict_copy(d) == [k \in DOMAIN d |-> d[k]]

\* apply_template_defaults, the before_insert hook of Asset: the row that is
\* inserted for target.  session.get returns None for an id without a row.
apply_template_defaults(db_templates, target) ==
    IF ~TruthyInt(target.template_id) THEN target
    ELSE IF target.template_id[1] \notin DOMAIN db_templates
    THEN target
    ELSE LET tmpl == db_templates[target.template_id[1]]
         IN  [target EXCEPT
                !.asset_type = tmpl.asset_type,
                !.config = IF TruthyDict(target.config) THEN target.config
                           ELSE IF TruthyDict(tmpl.default_config)
                           THEN Some(dict_copy(tmpl.default_config[1]))
                           ELSE Some(EmptyDict)]

\* class TemplateCategory
TemplateCategory == {"hardware", "consumable", "license"}

\* apply_license_expiry, the before_insert hook of AssetItem: the row that is
\* inserted for target when the INSERT runs at time now.  Times are counted in
\* days, and now() + interval 'n days' is evaluated by the INSERT itself.
apply_license_expiry(db_templates, target, now) ==
    LET tmpl == IF /\ TruthyInt(target.template_id)
                   /\ target.template_id[1] \in DOMAIN db_templates
                THEN Some(db_templates[target.template_id[1]])
                ELSE PyNone
    IN  IF /\ tmpl # PyNone
           /\ tmpl[1].category = Some("license")
           /\ TruthyInt(tmpl[1].license_duration_days)
        THEN [target EXCEPT
                !.expires_at = Some(now + tmpl[1].license_duration_days[1])]
        ELSE target

-----------------------------------------------------------------------------
(* app/crud/crud_asset.py *)

\* The row crud_asset.create_asset inserts for an AssetCreate body: the fields
\* of asset.dict(), a field the body leaves out taking the default of the
\* schema, after the before_insert hook of the model has run.
AssetRow(db_templates, asset) ==
    apply_template_defaults(db_templates,
        [parent_id   |-> Field(asset, "parent_id"),
         code        |-> Field(asset, "code"),
         location_id |-> Field(asset, "location_id"),
         template_id |-> Field(asset, "template_id"),
         asset_type  |-> Field(asset, "asset_type"),
         config      |-> Field(asset, "config")])

\* crud_asset.get_location
get_location(db_locations, location_id) ==
    IF location_id \in DOMAIN db_locations THEN Some(location_id) ELSE PyNone

\* crud_asset.get_asset_template
get_asset_template(db_templates, template_id) ==
    IF template_id \in DOMAIN db_templates THEN Some(template_id) ELSE PyNone

\* crud_asset.get_location_by_code
get_location_by_code(db_locations, code) ==
    IF \E i \in DOMAIN db_locations : db_locations[i].code = Some(code)
    THEN Some(CHOOSE i \in DOMAIN db_locations : db_locations[i].code = Some(code))
    ELSE PyNone

\* crud_asset.get_asset_template_by_code
get_asset_template_by_code(db_templates, code) ==
    IF \E i \in DOMAIN db_templates : db_templates[i].code = Some(code)
    THEN Some(CHOOSE i \in DOMAIN db_templates : db_templates[i].code = Some(code))
    ELSE PyNone

\* crud_asset.create_location: the row of location.dict() is inserted under
\* the next id.  The bodies of this model carry neither a code nor a parent
\* that is missing when the INSERT runs, so the commit cannot fail.
crud_asset_create_location(db_locations, id, location) ==
    Put(db_locations, id, [code      |-> Field(location, "code"),
                           parent_id |-> Field(location, "parent_id")])

\* crud_asset.create_asset_template: the row of template.dict() is inserted
\* under the next id; asset_type is required by the schema and the bodies of
\* this model carry no code, so the commit cannot fail.
crud_asset_create_asset_template(db_templates, id, template) ==
    Put(db_templates, id,
        [code           |-> Field(template, "code"),
         asset_type     |-> Field(template, "asset_type"),
         category       |-> DictGet(template, "category", Some("hardware")),
         default_config |-> Field(template, "default_config"),
         license_duration_days |-> Field(template, "license_duration_days")])

\* crud_asset.update_asset_template: setattr of every field the request
\* supplied on the row of the template, then the commit.
crud_asset_update_asset_template(db_templates, template_id, update_data) ==
    LET old == db_templates[template_id]
    IN  [db_templates EXCEPT ![template_id] =
            [f \in DOMAIN old |-> DictGet(update_data, f, old[f])]]

\* crud_asset.get_asset
get_asset(db_assets, asset_id) ==
    IF asset_id \in DOMAIN db_assets THEN Some(asset_id) ELSE PyNone

\* crud_asset.get_asset_by_code
get_asset_by_code(db_assets, code) ==
    IF \E i \in DOMAIN db_assets : db_assets[i].code = Some(code)
    THEN Some(CHOOSE i \in DOMAIN db_assets : db_assets[i].code = Some(code))
    ELSE PyNone

\* crud_asset.get_assets with the parent_id filter: the ids of the rows found.
get_assets(db_assets, parent_id) ==
    {i \in DOMAIN db_assets : db_assets[i].parent_id = Some(parent_id)}

\* crud_asset.create_asset: the INSERT takes the next value of the id serial
\* and the commit fails with IntegrityError when a constraint is broken.
crud_asset_create_asset(db_assets, db_locations, db_templates, id, asset) ==
    LET made == Put(db_assets, id, AssetRow(db_templates, asset))
    IN  IF /\ AssetConstraints(made)
           /\ AssetForeignKeys(made, db_locations, db_templates)
        THEN [exc |-> "none", assets |-> made]
        ELSE [exc |-> "IntegrityError", assets |-> db_assets]

\* crud_asset.update_asset as it would act if the body replaced the row
\* (dict() instead of dict(exclude_unset=True)): a field left out is None.
crud_asset_update_asset_replace(db_assets, db_locations, db_templates, asset_id, update_data) ==
    LET old  == db_assets[asset_id]
        row  == [f \in DOMAIN old |-> DictGet(update_data, f, PyNone)]
        made == Put(db_assets, asset_id, row)
    IN  IF /\ AssetConstraints(made)
           /\ AssetForeignKeys(made, db_locations, db_templates)
        THEN [exc |-> "none", assets |-> made]
        ELSE [exc |-> "IntegrityError", assets |-> db_assets]

\* crud_asset.update_asset as it would act if the commit of an UPDATE ran the
\* hook of the INSERT too.
crud_asset_update_asset_reapply(db_assets, db_locations, db_templates, asset_id, update_data) ==
    LET old  == db_assets[asset_id]
        row  == [f \in DOMAIN old |-> DictGet(update_data, f, old[f])]
        made == Put(db_assets, asset_id,
                    apply_template_defaults(db_templates, row))
    IN  IF /\ AssetConstraints(made)
           /\ AssetForeignKeys(made, db_locations, db_templates)
        THEN [exc |-> "none", assets |-> made]
        ELSE [exc |-> "IntegrityError", assets |-> db_assets]

\* crud_asset.update_asset: setattr of every field the request supplied
\* (dict(exclude_unset=True)), then the commit.
crud_asset_update_asset(db_assets, db_locations, db_templates, asset_id, update_data) ==
    LET old  == db_assets[asset_id]
        row  == [f \in DOMAIN old |-> DictGet(update_data, f, old[f])]
        made == Put(db_assets, asset_id, row)
    IN  IF /\ AssetConstraints(made)
           /\ AssetForeignKeys(made, db_locations, db_templates)
        THEN [exc |-> "none", assets |-> made]
        ELSE [exc |-> "IntegrityError", assets |-> db_assets]

\* crud_asset.delete_asset.  Asset.children, Asset.sensors and
\* Asset.deployed_items are relationships without a delete cascade, so the
\* flush of db.delete(asset) first sets the foreign key of every dependent row
\* to NULL: assets.parent_id accepts it, asset_sensors.asset_id and
\* asset_items.asset_id are NOT NULL and the flush fails with IntegrityError.
crud_asset_delete_asset(db_assets, db_sensors, db_items, asset_id) ==
    IF get_asset(db_assets, asset_id) = PyNone
    THEN [exc |-> "none", ret |-> FALSE, assets |-> db_assets]
    ELSE IF \/ \E s \in DOMAIN db_sensors : db_sensors[s].asset_id = asset_id
            \/ \E i \in DOMAIN db_items : db_items[i].asset_id = asset_id
    THEN [exc |-> "IntegrityError", ret |-> FALSE, assets |-> db_assets]
    ELSE LET rest == Remove(db_assets, asset_id)
         IN  [exc |-> "none", ret |-> TRUE,
              assets |-> [i \in DOMAIN rest |->
                            IF rest[i].parent_id = Some(asset_id)
                            THEN [rest[i] EXCEPT !.parent_id = PyNone]
                            ELSE rest[i]]]

\* The flush of crud_asset.delete_asset when other sessions commit between its
\* statements.  seen is the Asset.children collection the unit of work loaded:
\* it sets the parent_id of each of these rows to NULL (StaleDataError when one
\* of the rows, or the asset itself, is gone by then) and deletes the asset,
\* which the foreign key refuses when a row that was not loaded refers to it.
flush_delete_asset(db_assets, db_sensors, db_items, asset_id, seen) ==
    IF ~ (seen \cup {asset_id} \subseteq DOMAIN db_assets)
    THEN [exc |-> "StaleDataError", assets |-> db_assets]
    ELSE IF \/ \E s \in DOMAIN db_sensors : db_sensors[s].asset_id = asset_id
            \/ \E i \in DOMAIN db_items : db_items[i].asset_id = asset_id
    THEN [exc |-> "IntegrityError", assets |-> db_assets]
    ELSE LET rest == Remove(db_assets, asset_id)
             made == [i \in DOMAIN rest |->
                        IF i \in seen
                        THEN [rest[i] EXCEPT !.parent_id = PyNone]
                        ELSE rest[i]]
         IN  IF AssetConstraints(made)
             THEN [exc |-> "none", assets |-> made]
             ELSE [exc |-> "IntegrityError", assets |-> db_assets]

\* The depth of recursion at which Python gives up with RecursionError; a
\* recursion deeper than the number of assets never ends by itself.
RecursionLimit == MaxAssets + 1

\* The orders in which a query without ORDER BY may return the rows.
RowOrders ==
    {o \in [1 .. MaxAssets -> 1 .. MaxAssets] :
        \A i, j \in 1 .. MaxAssets : i # j => o[i] # o[j]}

\* The lists of a list of lists, one after the other (list.extend).
RECURSIVE Extend(_)
Extend(lists) ==
    IF lists = << >> THEN << >> ELSE Head(lists) \o Extend(Tail(lists))

\* db.query(Asset).filter(Asset.parent_id == asset_id).all(), as ids.
ChildrenAll(db_assets, asset_id, order) ==
    LET IsChild(i) == i \in get_assets(db_assets, asset_id)
    IN  SelectSeq(order, IsChild)

\* crud_asset.get_asset_hierarchy, depth being the depth of the recursion.
RECURSIVE crud_asset_get_asset_hierarchy(_, _, _, _)
crud_asset_get_asset_hierarchy(db_assets, asset_id, order, depth) ==
    IF depth > RecursionLimit
    THEN [exc |-> "RecursionError", ret |-> << >>]
    ELSE IF get_asset(db_assets, asset_id) = PyNone
    THEN [exc |-> "none", ret |-> << >>]
    ELSE LET children == ChildrenAll(db_assets, asset_id, order)
             below == [k \in 1 .. Len(children) |->
                         crud_asset_get_asset_hierarchy(db_assets, children[k],
                                                        order, depth + 1)]
         IN  IF \E k \in 1 .. Len(children) : below[k].exc # "none"
             THEN [exc |-> "RecursionError", ret |-> << >>]
             ELSE [exc |-> "none",
                   ret |-> << asset_id >>
                              \o Extend([k \in 1 .. Len(children) |-> below[k].ret])]

\* crud_asset.get_asset_sensor
get_asset_sensor(db_sensors, sensor_id) ==
    IF sensor_id \in DOMAIN db_sensors THEN Some(sensor_id) ELSE PyNone

\* crud_asset.create_asset_sensor
crud_asset_create_asset_sensor(db_sensors, id, asset_id) ==
    Put(db_sensors, id, [asset_id |-> asset_id])

\* crud_asset.delete_asset_sensor
crud_asset_delete_asset_sensor(db_sensors, sensor_id) ==
    IF get_asset_sensor(db_sensors, sensor_id) = PyNone
    THEN [ret |-> FALSE, sensors |-> db_sensors]
    ELSE [ret |-> TRUE, sensors |-> Remove(db_sensors, sensor_id)]

\* asset_items.asset_id and asset_items.template_id are foreign keys
\* (models/asset.py, class AssetItem).
AssetItemConstraints(db_items, db_assets, db_templates) ==
    \A i \in DOMAIN db_items :
       /\ db_items[i].asset_id \in DOMAIN db_assets
       /\ db_items[i].template_id # PyNone
       /\ db_items[i].template_id[1] \in DOMAIN db_templates

\* crud_asset.create_asset_item: the row of item.dict() is inserted under the
\* next id at time now, after the before_insert hook has run; deployed_at is
\* the server default now().
crud_asset_create_asset_item(db_items, db_assets, db_templates, id, item, now) ==
    LET row  == apply_license_expiry(db_templates,
                    [asset_id    |-> item.asset_id,
                     template_id |-> item.template_id,
                     quantity    |-> item.quantity,
                     deployed_at |-> now,
                     expires_at  |-> item.expires_at], now)
        made == Put(db_items, id, row)
    IN  IF AssetItemConstraints(made, db_assets, db_templates)
        THEN [exc |-> "none", items |-> made]
        ELSE [exc |-> "IntegrityError", items |-> db_items]

\* crud_asset.get_locations with the parent_id filter: the ids of the rows
\* found.
get_locations(db_locations, parent_id) ==
    {i \in DOMAIN db_locations : db_locations[i].parent_id = Some(parent_id)}

\* crud_asset.delete_location.  Location.children and Location.assets are
\* backrefs without a delete cascade, so the flush of db.delete(location) sets
\* locations.parent_id and assets.location_id of the dependent rows to NULL,
\* which both columns accept, and deletes the location.
crud_asset_delete_location(db_locations, db_assets, location_id) ==
    IF get_location(db_locations, location_id) = PyNone
    THEN [ret |-> FALSE, locations |-> db_locations, assets |-> db_assets]
    ELSE LET rest == Remove(db_locations, location_id)
         IN  [ret |-> TRUE,
              locations |-> [i \in DOMAIN rest |->
                               IF rest[i].parent_id = Some(location_id)
                               THEN [rest[i] EXCEPT !.parent_id = PyNone]
                               ELSE rest[i]],
              assets |-> [i \in DOMAIN db_assets |->
                            IF db_assets[i].location_id = Some(location_id)
                            THEN [db_assets[i] EXCEPT !.location_id = PyNone]
                            ELSE db_assets[i]]]

\* crud_asset.delete_asset_template.  AssetTemplate.deployed_items and
\* AssetTemplate.inventory_entries are relationships without a delete cascade:
\* the flush of db.delete(template) sets asset_items.template_id and
\* store_inventory.template_id of the dependent rows to NULL, which is NOT NULL
\* in both tables.  Asset.template has no relationship on the side of the
\* template, so assets.template_id is left as it is and its foreign key
\* refuses the DELETE.  Each of the three ends in IntegrityError.
crud_asset_delete_asset_template(db_templates, db_assets, db_items, db_inventories, template_id) ==
    IF get_asset_template(db_templates, template_id) = PyNone
    THEN [exc |-> "none", ret |-> FALSE, templates |-> db_templates]
    ELSE IF \/ \E i \in DOMAIN db_items : db_items[i].template_id = Some(template_id)
            \/ \E i \in DOMAIN db_inventories :
                  db_inventories[i].template_id = template_id
            \/ \E i \in DOMAIN db_assets : db_assets[i].template_id = Some(template_id)
    THEN [exc |-> "IntegrityError", ret |-> FALSE, templates |-> db_templates]
    ELSE [exc |-> "none", ret |-> TRUE,
          templates |-> Remove(db_templates, template_id)]

\* crud_asset.get_store_inventory_by_template
get_store_inventory_by_template(db_inventories, template_id) ==
    IF \E i \in DOMAIN db_inventories : db_inventories[i].template_id = template_id
    THEN Some(CHOOSE i \in DOMAIN db_inventories :
                 db_inventories[i].template_id = template_id)
    ELSE PyNone

\* crud_asset.create_store_inventory: the row of inventory.dict() is inserted
\* under the next id.  store_inventory.template_id is a foreign key and has no
\* unique index (models/asset.py, class StoreInventory).
crud_asset_create_store_inventory(db_inventories, db_templates, id, inventory) ==
    IF inventory.template_id \in DOMAIN db_templates
    THEN [exc |-> "none",
          inventories |-> Put(db_inventories, id,
                              [template_id |-> inventory.template_id,
                               quantity    |-> inventory.quantity])]
    ELSE [exc |-> "IntegrityError", inventories |-> db_inventories]

-----------------------------------------------------------------------------
(* app/api/v1/endpoints/asset.py *)

\* The response FastAPI gives when the handler lets an exception escape; the
\* session is closed by deps.get_db and the transaction is rolled back.
ServerError == Response(500, "Internal Server Error")

\* The parent ids, codes and update bodies the modelled requests carry.  A
\* parent id is None, 0, or an id the serial has or will hand out; requests
\* carry no location_id and no template_id, so those two lookups are skipped.
AssetIds == 1 .. MaxAssets

ParentIn == {PyNone, Some(0)} \cup {Some(i) : i \in AssetIds}

CodeIn == {PyNone, Some(""), Some("INV-1")}

\* AssetUpdate bodies: the fields of the domain are the ones the client set.
AssetUpdateIn ==
    {[f \in {"parent_id"} |-> p] : p \in ParentIn}
       \cup {[f \in {"code"} |-> c] : c \in CodeIn}
       \cup {[f \in {} |-> PyNone]}

\* create_asset up to the call of crud_asset.create_asset: the response of the
\* pre-check that rejects the request, PyNone when all of them pass.
create_asset_checks(r) ==
    LET denied      == get_current_active_user(users[r.caller])
        code        == Field(r, "code")
        parent_id   == Field(r, "parent_id")
        location_id == Field(r, "location_id")
        template_id == Field(r, "template_id")
    IN  IF denied # PyNone THEN denied
        ELSE IF TruthyStr(code) /\ get_asset_by_code(assets, code[1]) # PyNone
        THEN Some(Response(400, "An asset with this code already exists."))
        ELSE IF TruthyInt(parent_id) /\ get_asset(assets, parent_id[1]) = PyNone
        THEN Some(Response(404, "Parent asset not found."))
        ELSE IF /\ TruthyInt(location_id)
                /\ get_location(locations, location_id[1]) = PyNone
        THEN Some(Response(404, "Location not found."))
        ELSE IF /\ TruthyInt(template_id)
                /\ get_asset_template(templates, template_id[1]) = PyNone
        THEN Some(Response(404, "Asset template not found."))
        ELSE PyNone

\* POST /assets/ : create_asset
create_asset(r) ==
    LET rejected == create_asset_checks(r)
    IN  IF rejected # PyNone
        THEN [assets |-> assets, nextAssetId |-> nextAssetId,
              resp |-> rejected[1]]
        ELSE LET made == crud_asset_create_asset(assets, locations, templates,
                                                 nextAssetId, r)
             IN  IF made.exc # "none"
                 THEN [assets |-> assets, nextAssetId |-> nextAssetId + 1,
                       resp |-> ServerError]
                 ELSE [assets |-> made.assets, nextAssetId |-> nextAssetId + 1,
                       resp |-> Response(200, "asset")]

\* update_asset up to the call of crud_asset.update_asset: the response of the
\* pre-check that rejects the request, PyNone when all of them pass.
update_asset_checks(r) ==
    LET denied == get_current_active_user(users[r.caller])
        code        == Field(r.asset_in, "code")
        parent_id   == Field(r.asset_in, "parent_id")
        location_id == Field(r.asset_in, "location_id")
        template_id == Field(r.asset_in, "template_id")
    IN  IF denied # PyNone THEN denied
        ELSE IF get_asset(assets, r.asset_id) = PyNone
        THEN Some(Response(404, "Asset not found"))
        ELSE IF /\ TruthyStr(code)
                /\ code # assets[r.asset_id].code
                /\ get_asset_by_code(assets, code[1]) # PyNone
        THEN Some(Response(400, "An asset with this code already exists."))
        ELSE IF /\ TruthyInt(parent_id)
                /\ parent_id # assets[r.asset_id].parent_id
                /\ get_asset(assets, parent_id[1]) = PyNone
        THEN Some(Response(404, "Parent asset not found."))
        ELSE IF /\ TruthyInt(location_id)
                /\ location_id # assets[r.asset_id].location_id
                /\ get_location(locations, location_id[1]) = PyNone
        THEN Some(Response(404, "Location not found."))
        ELSE IF /\ TruthyInt(template_id)
                /\ template_id # assets[r.asset_id].template_id
                /\ get_asset_template(templates, template_id[1]) = PyNone
        THEN Some(Response(404, "Asset template not found."))
        ELSE PyNone

\* PUT /assets/{asset_id} : update_asset
update_asset(r) ==
    LET rejected == update_asset_checks(r)
    IN  IF rejected # PyNone THEN [assets |-> assets, resp |-> rejected[1]]
        ELSE LET made == crud_asset_update_asset(assets, locations, templates,
                                                 r.asset_id, r.asset_in)
             IN  IF made.exc # "none"
                 THEN [assets |-> assets, resp |-> ServerError]
                 ELSE [assets |-> made.assets, resp |-> Response(200, "asset")]

\* delete_asset up to the call of crud_asset.delete_asset: the response of the
\* pre-check that rejects the request, PyNone when all of them pass.
delete_asset_checks(r) ==
    LET denied == get_current_active_user(users[r.caller])
    IN  IF denied # PyNone THEN denied
        ELSE IF get_asset(assets, r.asset_id) = PyNone
        THEN Some(Response(404, "Asset not found"))
        ELSE IF get_assets(assets, r.asset_id) # {}
        THEN Some(Response(400, "Cannot delete asset with children. Please delete or reassign children first."))
        ELSE PyNone

\* DELETE /assets/{asset_id} : delete_asset
delete_asset(r) ==
    LET rejected == delete_asset_checks(r)
    IN  IF rejected # PyNone THEN [assets |-> assets, resp |-> rejected[1]]
        ELSE LET gone == crud_asset_delete_asset(assets, sensors, items, r.asset_id)
             IN  IF gone.exc # "none"
                 THEN [assets |-> assets, resp |-> ServerError]
                 ELSE [assets |-> gone.assets,
                       resp |-> Response(200, IF gone.ret THEN "true" ELSE "false")]

\* POST /assets/{asset_id}/sensors/ : create_asset_sensor
create_asset_sensor(r) ==
    LET denied == get_current_active_user(users[r.caller])
        Reject(response) ==
            [sensors |-> sensors, nextSensorId |-> nextSensorId, resp |-> response]
    IN  IF denied # PyNone THEN Reject(denied[1])
        ELSE IF get_asset(assets, r.asset_id) = PyNone
        THEN Reject(Response(404, "Asset not found"))
        ELSE [sensors |-> crud_asset_create_asset_sensor(sensors, nextSensorId,
                                                         r.asset_id),
              nextSensorId |-> nextSensorId + 1,
              resp |-> Response(200, "sensor")]

\* POST /assets/{asset_id}/items/ : create_asset_item, the INSERT running at
\* time now.  item_data is item_in.dict() with the asset_id of the path.
create_asset_item(r, now) ==
    LET denied == get_current_active_user(users[r.caller])
        Reject(response) == [items |-> items, serials |-> serials, resp |-> response]
    IN  IF denied # PyNone THEN Reject(denied[1])
        ELSE IF get_asset(assets, r.asset_id) = PyNone
        THEN Reject(Response(404, "Asset not found"))
        ELSE IF get_asset_template(templates, r.item_in.template_id[1]) = PyNone
        THEN Reject(Response(404, "Asset template not found"))
        ELSE LET item_data == [r.item_in EXCEPT !.asset_id = r.asset_id]
                 made == crud_asset_create_asset_item(items, assets, templates,
                             serials.asset_items, item_data, now)
             IN  [items |-> made.items,
                  serials |-> [serials EXCEPT !.asset_items = @ + 1],
                  resp |-> IF made.exc # "none" THEN ServerError
                           ELSE Response(200, "item")]

\* DELETE /assets/locations/{location_id} : delete_location
delete_location(r) ==
    LET denied == get_current_active_user(users[r.caller])
        Reject(response) ==
            [locations |-> locations, assets |-> assets, resp |-> response]
    IN  IF denied # PyNone THEN Reject(denied[1])
        ELSE IF get_location(locations, r.location_id) = PyNone
        THEN Reject(Response(404, "Location not found"))
        ELSE IF get_locations(locations, r.location_id) # {}
        THEN Reject(Response(400, "Cannot delete location with children. Please delete or reassign children first."))
        ELSE LET gone == crud_asset_delete_location(locations, assets,
                                                    r.location_id)
             IN  [locations |-> gone.locations, assets |-> gone.assets,
                  resp |-> Response(200, IF gone.ret THEN "true" ELSE "false")]

\* DELETE /assets/templates/{template_id} : delete_asset_template
delete_asset_template(r) ==
    LET denied == get_current_active_user(users[r.caller])
    IN  IF denied # PyNone THEN [templates |-> templates, resp |-> denied[1]]
        ELSE IF get_asset_template(templates, r.template_id) = PyNone
        THEN [templates |-> templates,
              resp |-> Response(404, "Asset template not found")]
        ELSE LET gone == crud_asset_delete_asset_template(
                             templates, assets, items, inventories, r.template_id)
             IN  IF gone.exc # "none"
                 THEN [templates |-> templates, resp |-> ServerError]
                 ELSE [templates |-> gone.templates,
                       resp |-> Response(200, IF gone.ret THEN "true" ELSE "false")]

\* create_store_inventory up to the call of crud_asset.create_store_inventory:
\* the response of the pre-check that rejects the request, PyNone when all of
\* them pass.
create_store_inventory_checks(r) ==
    LET denied == get_current_active_user(users[r.caller])
    IN  IF denied # PyNone THEN denied
        ELSE IF get_asset_template(templates, r.inventory_in.template_id) = PyNone
        THEN Some(Response(404, "Asset template not found"))
        ELSE IF get_store_inventory_by_template(
                    inventories, r.inventory_in.template_id) # PyNone
        THEN Some(Response(400, "Inventory already exists for this template. Use update instead."))
        ELSE PyNone

\* DELETE /assets/sensors/{sensor_id} : delete_asset_sensor
delete_asset_sensor(r) ==
    LET denied == get_current_active_user(users[r.caller])
    IN  IF denied # PyNone THEN [sensors |-> sensors, resp |-> denied[1]]
        ELSE IF get_asset_sensor(sensors, r.sensor_id) = PyNone
        THEN [sensors |-> sensors, resp |-> Response(404, "Asset sensor not found")]
        ELSE LET gone == crud_asset_delete_asset_sensor(sensors, r.sensor_id)
             IN  [sensors |-> gone.sensors,
                  resp |-> Response(200, IF gone.ret THEN "true" ELSE "false")]

\* A client holding a valid token sends an asset request.
ReceiveAssetRequest ==
    /\ Idle
    /\ \E caller \in DOMAIN users :
          \/ /\ nextAssetId <= MaxAssets
             /\ \E parent_id \in ParentIn, code \in CodeIn :
                   req' = [op |-> "create_asset", caller |-> caller,
                           parent_id |-> parent_id, code |-> code,
                           asset_type |-> Some("inverter")]
          \/ \E asset_id \in AssetIds, asset_in \in AssetUpdateIn :
                req' = [op |-> "update_asset", caller |-> caller,
                        asset_id |-> asset_id, asset_in |-> asset_in]
          \/ \E asset_id \in AssetIds :
                req' = [op |-> "delete_asset", caller |-> caller,
                        asset_id |-> asset_id]
          \/ \E asset_id \in AssetIds :
                req' = [op |-> "get_asset_ancestors", caller |-> caller,
                        asset_id |-> asset_id]
    /\ UNCHANGED <<users, assets, nextAssetId, sensors, nextSensorId, resp,
                   walk, call, templates, locations, threads, items,
                   inventories, serials>>

\* A client holding a valid token sends a sensor request.
ReceiveSensorRequest ==
    /\ Idle
    /\ \E caller \in DOMAIN users :
          \/ /\ nextSensorId <= MaxSensors
             /\ \E asset_id \in AssetIds :
                   req' = [op |-> "create_asset_sensor", caller |-> caller,
                           asset_id |-> asset_id]
          \/ \E sensor_id \in 1 .. MaxSensors :
                req' = [op |-> "delete_asset_sensor", caller |-> caller,
                        sensor_id |-> sensor_id]
    /\ UNCHANGED <<users, assets, nextAssetId, sensors, nextSensorId, resp,
                   walk, call, templates, locations, threads, items,
                   inventories, serials>>

CreateAsset ==
    /\ Pending
    /\ req.op = "create_asset"
    /\ LET out == create_asset(req)
       IN  /\ assets' = out.assets
           /\ nextAssetId' = out.nextAssetId
           /\ resp' = out.resp
    /\ UNCHANGED <<users, sensors, nextSensorId, req, walk, call, templates,
                   locations, threads, items, inventories, serials>>

\* update_asset as it would act if the config of an asset and the
\* default_config of its template were one object: the new config of the asset
\* shows in the template.
UpdateAsset_shared_config ==
    /\ Pending
    /\ req.op = "update_asset"
    /\ LET out == update_asset(req)
           tid == IF req.asset_id \in DOMAIN out.assets
                  THEN out.assets[req.asset_id].template_id
                  ELSE PyNone
       IN  /\ assets' = out.assets
           /\ resp' = out.resp
           /\ templates' =
                 IF /\ out.resp.status = 200
                    /\ "config" \in DOMAIN req.asset_in
                    /\ tid # PyNone
                 THEN [templates EXCEPT ![tid[1]].default_config =
                                           req.asset_in.config]
                 ELSE templates
    /\ UNCHANGED <<users, nextAssetId, sensors, nextSensorId, req, walk, call,
                   locations, threads, items, inventories, serials>>

UpdateAsset ==
    /\ Pending
    /\ req.op = "update_asset"
    /\ LET out == update_asset(req)
       IN  assets' = out.assets /\ resp' = out.resp
    /\ UNCHANGED <<users, nextAssetId, sensors, nextSensorId, req, walk, call,
                   templates, locations, threads, items, inventories, serials>>

DeleteAsset ==
    /\ Pending
    /\ req.op = "delete_asset"
    /\ LET out == delete_asset(req)
       IN  assets' = out.assets /\ resp' = out.resp
    /\ UNCHANGED <<users, nextAssetId, sensors, nextSensorId, req, walk, call,
                   templates, locations, threads, items, inventories, serials>>

CreateAssetSensor ==
    /\ Pending
    /\ req.op = "create_asset_sensor"
    /\ LET out == create_asset_sensor(req)
       IN  /\ sensors' = out.sensors
           /\ nextSensorId' = out.nextSensorId
           /\ resp' = out.resp
    /\ UNCHANGED <<users, assets, nextAssetId, req, walk, call, templates,
                   locations, threads, items, inventories, serials>>

DeleteAssetSensor ==
    /\ Pending
    /\ req.op = "delete_asset_sensor"
    /\ LET out == delete_asset_sensor(req)
       IN  sensors' = out.sensors /\ resp' = out.resp
    /\ UNCHANGED <<users, assets, nextAssetId, nextSensorId, req, walk, call,
                   templates, locations, threads, items, inventories, serials>>

\* POST /assets/locations/ : create_location
create_location(r) ==
    LET denied    == get_current_active_user(users[r.caller])
        code      == Field(r, "code")
        parent_id == Field(r, "parent_id")
    IN  IF denied # PyNone THEN [locations |-> locations, resp |-> denied[1]]
        ELSE IF TruthyStr(code) /\ get_location_by_code(locations, code[1]) # PyNone
        THEN [locations |-> locations,
              resp |-> Response(400, "A location with this code already exists.")]
        ELSE IF TruthyInt(parent_id) /\ get_location(locations, parent_id[1]) = PyNone
        THEN [locations |-> locations,
              resp |-> Response(404, "Parent location not found.")]
        ELSE [locations |-> crud_asset_create_location(locations, serials.locations, r),
              resp |-> Response(200, "location")]

\* POST /assets/templates/ : create_asset_template
create_asset_template(r) ==
    LET denied == get_current_active_user(users[r.caller])
        code   == Field(r, "code")
    IN  IF denied # PyNone THEN [templates |-> templates, resp |-> denied[1]]
        ELSE IF /\ TruthyStr(code)
                /\ get_asset_template_by_code(templates, code[1]) # PyNone
        THEN [templates |-> templates,
              resp |-> Response(400,
                         "An asset template with this code already exists.")]
        ELSE [templates |-> crud_asset_create_asset_template(templates, serials.asset_templates, r),
              resp |-> Response(200, "template")]

\* PUT /assets/templates/{template_id} : update_asset_template
update_asset_template(r) ==
    LET denied == get_current_active_user(users[r.caller])
        code   == Field(r.template_in, "code")
    IN  IF denied # PyNone THEN [templates |-> templates, resp |-> denied[1]]
        ELSE IF get_asset_template(templates, r.template_id) = PyNone
        THEN [templates |-> templates,
              resp |-> Response(404, "Asset template not found")]
        ELSE IF /\ TruthyStr(code)
                /\ code # templates[r.template_id].code
                /\ get_asset_template_by_code(templates, code[1]) # PyNone
        THEN [templates |-> templates,
              resp |-> Response(400,
                         "An asset template with this code already exists.")]
        ELSE [templates |-> crud_asset_update_asset_template(
                               templates, r.template_id, r.template_in),
              resp |-> Response(200, "template")]

\* The ids a client names for a location, a template or a parent asset: none,
\* zero, and the first id of the table, which resolves once a row was made.
RefIn == {PyNone, Some(0), Some(1)}

\* The bodies of PUT /assets/{asset_id} that change one reference.
AssetRefUpdateIn ==
    UNION {{[parent_id |-> v], [location_id |-> v], [template_id |-> v]} :
              v \in RefIn}

\* The configurations a client sends: none, the empty object, and two objects
\* that differ only in a nested value.
ConfigIn ==
    {PyNone, Some(EmptyDict),
     Some([limits |-> [max |-> 1]]), Some([limits |-> [max |-> 2]])}

\* The asset types a client sends for a template and for an asset.
TemplateTypeIn == {"panel", "plant"}

AssetTypeIn == {"inverter", "panel"}

\* The bodies of PUT /assets/templates/{template_id}.
AssetTemplateUpdateIn ==
    {[asset_type |-> Some(a)] : a \in TemplateTypeIn}
       \cup {[default_config |-> c] : c \in ConfigIn}

\* The bodies of PUT /assets/{asset_id} that change what a template gives.
AssetTemplatedUpdateIn ==
    {[config |-> c] : c \in ConfigIn}
       \cup {[template_id |-> v] : v \in {PyNone, Some(1)}}
       \cup {[asset_type |-> Some(a)] : a \in AssetTypeIn}

\* A client holding a valid token sends a location request.
ReceiveLocationRequest ==
    /\ Idle
    /\ serials.locations <= MaxLocations
    /\ \E caller \in DOMAIN users :
          req' = [op |-> "create_location", caller |-> caller]
    /\ UNCHANGED <<users, assets, nextAssetId, sensors, nextSensorId, resp,
                   walk, call, templates, locations, threads, items,
                   inventories, serials>>

\* A client holding a valid token sends a template request.
ReceiveTemplateRequest ==
    /\ Idle
    /\ \E caller \in DOMAIN users :
          \/ /\ serials.asset_templates <= MaxTemplates
             /\ \E asset_type \in TemplateTypeIn, default_config \in ConfigIn :
                   req' = [op |-> "create_asset_template", caller |-> caller,
                           asset_type |-> Some(asset_type),
                           default_config |-> default_config]
          \/ \E template_id \in 1 .. MaxTemplates,
                template_in \in AssetTemplateUpdateIn :
                req' = [op |-> "update_asset_template", caller |-> caller,
                        template_id |-> template_id,
                        template_in |-> template_in]
    /\ UNCHANGED <<users, assets, nextAssetId, sensors, nextSensorId, resp,
                   walk, call, templates, locations, threads, items,
                   inventories, serials>>

\* A client holding a valid token sends an asset request that names a parent,
\* a location and a template.
ReceiveAssetRefsRequest ==
    /\ Idle
    /\ \E caller \in DOMAIN users :
          \/ /\ nextAssetId <= MaxRefAssets
             /\ \E parent_id \in RefIn, location_id \in RefIn,
                   template_id \in RefIn :
                   req' = [op |-> "create_asset", caller |-> caller,
                           parent_id |-> parent_id,
                           location_id |-> location_id,
                           template_id |-> template_id,
                           asset_type |-> Some("inverter")]
          \/ \E asset_id \in 1 .. MaxRefAssets, asset_in \in AssetRefUpdateIn :
                req' = [op |-> "update_asset", caller |-> caller,
                        asset_id |-> asset_id, asset_in |-> asset_in]
    /\ UNCHANGED <<users, assets, nextAssetId, sensors, nextSensorId, resp,
                   walk, call, templates, locations, threads, items,
                   inventories, serials>>

\* A client holding a valid token sends an asset request that names a template
\* and carries an asset type and a configuration.
ReceiveTemplatedAssetRequest ==
    /\ Idle
    /\ \E caller \in DOMAIN users :
          \/ /\ nextAssetId <= MaxRefAssets
             /\ \E template_id \in {PyNone, Some(1)}, asset_type \in AssetTypeIn,
                   config \in ConfigIn :
                   req' = [op |-> "create_asset", caller |-> caller,
                           template_id |-> template_id,
                           asset_type |-> Some(asset_type),
                           config |-> config]
          \/ \E asset_id \in 1 .. MaxRefAssets,
                asset_in \in AssetTemplatedUpdateIn :
                req' = [op |-> "update_asset", caller |-> caller,
                        asset_id |-> asset_id, asset_in |-> asset_in]
    /\ UNCHANGED <<users, assets, nextAssetId, sensors, nextSensorId, resp,
                   walk, call, templates, locations, threads, items,
                   inventories, serials>>

\* The bodies of PUT /assets/{asset_id} that set or clear a nullable field, a
\* field that is NOT NULL, or two fields at once, and the one that sets none.
AssetPatchIn ==
    { EmptyDict,
      [code |-> PyNone], [code |-> Some("INV-2")],
      [asset_type |-> PyNone], [asset_type |-> Some("panel")],
      [asset_type |-> Some("panel"), config |-> Some([limits |-> [max |-> 1]])] }

\* A client holding a valid token creates an asset with or without a code, or
\* sends a partial update of an asset.
ReceiveAssetPatchRequest ==
    /\ Idle
    /\ \E caller \in DOMAIN users :
          \/ /\ nextAssetId <= MaxAssets
             /\ \E code \in {PyNone, Some("INV-1")} :
                   req' = [op |-> "create_asset", caller |-> caller,
                           code |-> code, asset_type |-> Some("inverter")]
          \/ \E asset_id \in AssetIds, asset_in \in AssetPatchIn :
                req' = [op |-> "update_asset", caller |-> caller,
                        asset_id |-> asset_id, asset_in |-> asset_in]
    /\ UNCHANGED <<users, assets, nextAssetId, sensors, nextSensorId, resp,
                   walk, call, templates, locations, threads, items,
                   inventories, serials>>

CreateLocation ==
    /\ Pending
    /\ req.op = "create_location"
    /\ LET out == create_location(req)
       IN  /\ locations' = out.locations
           /\ resp' = out.resp
           /\ serials' = IF out.resp.status = 200
                         THEN [serials EXCEPT !.locations = @ + 1]
                         ELSE serials
    /\ UNCHANGED <<users, assets, nextAssetId, sensors, nextSensorId, req,
                   walk, call, templates, threads, items, inventories>>

CreateAssetTemplate ==
    /\ Pending
    /\ req.op = "create_asset_template"
    /\ LET out == create_asset_template(req)
       IN  /\ templates' = out.templates
           /\ resp' = out.resp
           /\ serials' = IF out.resp.status = 200
                         THEN [serials EXCEPT !.asset_templates = @ + 1]
                         ELSE serials
    /\ UNCHANGED <<users, assets, nextAssetId, sensors, nextSensorId, req,
                   walk, call, locations, threads, items, inventories>>

UpdateAssetTemplate ==
    /\ Pending
    /\ req.op = "update_asset_template"
    /\ LET out == update_asset_template(req)
       IN  templates' = out.templates /\ resp' = out.resp
    /\ UNCHANGED <<users, assets, nextAssetId, sensors, nextSensorId, req,
                   walk, call, locations, threads, items, inventories,
                   serials>>

\* GET /assets/{asset_id}/ancestors : get_asset_ancestors up to the loop of
\* crud_asset.get_asset_ancestors, whose locals are kept in walk.
NoWalk == [running |-> FALSE]

GetAssetAncestors ==
    /\ Pending
    /\ req.op = "get_asset_ancestors"
    /\ walk = NoWalk
    /\ LET denied == get_current_active_user(users[req.caller])
       IN  IF denied # PyNone
           THEN resp' = denied[1] /\ walk' = walk
           ELSE IF get_asset(assets, req.asset_id) = PyNone
           THEN resp' = Response(404, "Asset not found") /\ walk' = walk
           ELSE /\ walk' = [running |-> TRUE, pc |-> "while",
                            current |-> req.asset_id, ancestors |-> << >>]
                /\ resp' = resp
    /\ UNCHANGED <<users, assets, nextAssetId, sensors, nextSensorId, req,
                   call, templates, locations, threads, items, inventories,
                   serials>>

\* The test of "while current.parent_id:": into the loop body, or the return.
GetAssetAncestorsWhile ==
    /\ walk # NoWalk
    /\ walk.pc = "while"
    /\ IF TruthyInt(assets[walk.current].parent_id)
       THEN walk' = [walk EXCEPT !.pc = "body"] /\ resp' = resp
       ELSE /\ walk' = NoWalk
            /\ resp' = [status |-> 200, detail |-> "ancestors",
                        ancestors |-> walk.ancestors]
    /\ UNCHANGED <<users, assets, nextAssetId, sensors, nextSensorId, req,
                   call, templates, locations, threads, items, inventories,
                   serials>>

\* Mutant of GetAssetAncestorsBody: the parent is put in front of the list.
GetAssetAncestorsBody_prepend ==
    /\ walk # NoWalk
    /\ walk.pc = "body"
    /\ LET parent == get_asset(assets, assets[walk.current].parent_id[1])
       IN  IF parent # PyNone
           THEN /\ walk' = [walk EXCEPT
                              !.pc = "while",
                              !.current = parent[1],
                              !.ancestors = IF Len(@) < MaxWalk
                                            THEN << parent[1] >> \o @
                                            ELSE @]
                /\ resp' = resp
           ELSE /\ walk' = NoWalk
                /\ resp' = [status |-> 200, detail |-> "ancestors",
                            ancestors |-> walk.ancestors]
    /\ UNCHANGED <<users, assets, nextAssetId, sensors, nextSensorId, req,
                   call, templates, locations, threads, items, inventories,
                   serials>>

\* The loop body: the parent is queried, appended and made current, or the
\* loop is left when the row is missing.  The list of ancestors is recorded
\* up to MaxWalk entries, longer than any chain without a repetition; current
\* keeps moving after that.
GetAssetAncestorsBody ==
    /\ walk # NoWalk
    /\ walk.pc = "body"
    /\ LET parent == get_asset(assets, assets[walk.current].parent_id[1])
       IN  IF parent # PyNone
           THEN /\ walk' = [walk EXCEPT
                              !.pc = "while",
                              !.current = parent[1],
                              !.ancestors = IF Len(@) < MaxWalk
                                            THEN Append(@, parent[1])
                                            ELSE @]
                /\ resp' = resp
           ELSE /\ walk' = NoWalk
                /\ resp' = [status |-> 200, detail |-> "ancestors",
                            ancestors |-> walk.ancestors]
    /\ UNCHANGED <<users, assets, nextAssetId, sensors, nextSensorId, req,
                   call, templates, locations, threads, items, inventories,
                   serials>>

\* Code that holds a session (the unit tests, another module) calls
\* crud_asset.get_asset_ancestors itself, for an id that may not exist.
ReceiveCrudAncestorsCall ==
    /\ Idle
    /\ \E asset_id \in AssetIds :
          req' = [op |-> "crud_asset.get_asset_ancestors", asset_id |-> asset_id]
    /\ UNCHANGED <<users, assets, nextAssetId, sensors, nextSensorId, resp,
                   walk, call, templates, locations, threads, items,
                   inventories, serials>>

\* crud_asset.get_asset_ancestors up to its loop; the value it returns is
\* handed over in resp like the one the endpoint gets.
CrudGetAssetAncestors ==
    /\ Pending
    /\ req.op = "crud_asset.get_asset_ancestors"
    /\ walk = NoWalk
    /\ IF get_asset(assets, req.asset_id) = PyNone
       THEN /\ resp' = [status |-> 200, detail |-> "ancestors",
                        ancestors |-> << >>]
            /\ walk' = walk
       ELSE /\ walk' = [running |-> TRUE, pc |-> "while",
                        current |-> req.asset_id, ancestors |-> << >>]
            /\ resp' = resp
    /\ UNCHANGED <<users, assets, nextAssetId, sensors, nextSensorId, req,
                   call, templates, locations, threads, items, inventories,
                   serials>>

\* GET /assets/{asset_id}/hierarchy : get_asset_hierarchy
get_asset_hierarchy(r) ==
    LET denied == get_current_active_user(users[r.caller])
    IN  IF denied # PyNone THEN denied[1]
        ELSE IF get_asset(assets, r.asset_id) = PyNone
        THEN Response(404, "Asset not found")
        ELSE [status |-> 200, detail |-> "hierarchy", asset |-> r.asset_id,
              children |-> ChildrenAll(assets, r.asset_id, r.order)]

\* A client asks for the hierarchy of an asset, or code that holds a session
\* calls crud_asset.get_asset_hierarchy itself; order is the order in which
\* the database returns rows during the request.
ReceiveHierarchyRequest ==
    /\ Idle
    /\ \E asset_id \in AssetIds, order \in RowOrders :
          \/ \E caller \in DOMAIN users :
                req' = [op |-> "get_asset_hierarchy", caller |-> caller,
                        asset_id |-> asset_id, order |-> order]
          \/ req' = [op |-> "crud_asset.get_asset_hierarchy",
                     asset_id |-> asset_id, order |-> order]
    /\ UNCHANGED <<users, assets, nextAssetId, sensors, nextSensorId, resp,
                   walk, call, templates, locations, threads, items,
                   inventories, serials>>

GetAssetHierarchy ==
    /\ Pending
    /\ req.op = "get_asset_hierarchy"
    /\ resp' = get_asset_hierarchy(req)
    /\ UNCHANGED <<users, assets, nextAssetId, sensors, nextSensorId, req,
                   walk, call, templates, locations, threads, items,
                   inventories, serials>>

\* The value crud_asset.get_asset_hierarchy returns, or the exception it
\* raises, is handed over in resp.
CrudGetAssetHierarchy ==
    /\ Pending
    /\ req.op = "crud_asset.get_asset_hierarchy"
    /\ LET out == crud_asset_get_asset_hierarchy(assets, req.asset_id, req.order, 1)
       IN  resp' = IF out.exc # "none"
                   THEN [status |-> 500, detail |-> out.exc]
                   ELSE [status |-> 200, detail |-> "hierarchy",
                         hierarchy |-> out.ret]
    /\ UNCHANGED <<users, assets, nextAssetId, sensors, nextSensorId, req,
                   walk, call, templates, locations, threads, items,
                   inventories, serials>>

\* The license_duration_days of a template, the expires_at of an item and the
\* times at which an INSERT runs, in days.
LicenseDaysIn == {PyNone, Some(0), Some(30)}

ExpiresIn == {PyNone, Some(5)}

NowIn == {1, 2}

\* A client holding a valid token sends a template of some category, an asset
\* without references, or an item for an asset.
ReceiveItemRequest ==
    /\ Idle
    /\ \E caller \in DOMAIN users :
          \/ /\ serials.asset_templates <= MaxTemplates
             /\ \E category \in TemplateCategory, days \in LicenseDaysIn :
                   req' = [op |-> "create_asset_template", caller |-> caller,
                           asset_type |-> Some("panel"),
                           category |-> Some(category),
                           license_duration_days |-> days]
          \/ /\ nextAssetId <= MaxRefAssets
             /\ req' = [op |-> "create_asset", caller |-> caller,
                        asset_type |-> Some("inverter")]
          \/ /\ serials.asset_items <= MaxItems
             /\ \E asset_id \in 1 .. MaxRefAssets,
                   template_id \in 0 .. MaxTemplates, expires_at \in ExpiresIn :
                   req' = [op |-> "create_asset_item", caller |-> caller,
                           asset_id |-> asset_id,
                           item_in |-> [asset_id    |-> asset_id,
                                        template_id |-> Some(template_id),
                                        quantity    |-> 1,
                                        expires_at  |-> expires_at]]
    /\ UNCHANGED <<users, assets, nextAssetId, sensors, nextSensorId, resp,
                   walk, call, templates, locations, threads, items,
                   inventories, serials>>

CreateAssetItem ==
    /\ Pending
    /\ req.op = "create_asset_item"
    /\ \E now \in NowIn :
          LET out == create_asset_item(req, now)
          IN  /\ items' = out.items
              /\ serials' = out.serials
              /\ resp' = out.resp
    /\ UNCHANGED <<users, assets, nextAssetId, sensors, nextSensorId, req,
                   walk, call, templates, locations, threads, inventories>>

\* A client holding a valid token sends a request that makes a row other rows
\* can refer to, a row that refers to one, or a delete of a row.
ReceiveReferenceRequest ==
    /\ Idle
    /\ \E caller \in DOMAIN users :
          \/ /\ serials.locations <= MaxLocations
             /\ req' = [op |-> "create_location", caller |-> caller]
          \/ /\ serials.asset_templates <= MaxTemplates
             /\ req' = [op |-> "create_asset_template", caller |-> caller,
                        asset_type |-> Some("panel")]
          \/ /\ nextAssetId <= MaxRefAssets
             /\ \E location_id \in {PyNone, Some(1)},
                   template_id \in {PyNone, Some(1)} :
                   req' = [op |-> "create_asset", caller |-> caller,
                           location_id |-> location_id,
                           template_id |-> template_id,
                           asset_type |-> Some("inverter")]
          \/ /\ nextSensorId <= MaxSensors
             /\ \E asset_id \in 1 .. MaxRefAssets :
                   req' = [op |-> "create_asset_sensor", caller |-> caller,
                           asset_id |-> asset_id]
          \/ /\ serials.asset_items <= MaxItems
             /\ \E asset_id \in 1 .. MaxRefAssets, template_id \in 1 .. MaxTemplates :
                   req' = [op |-> "create_asset_item", caller |-> caller,
                           asset_id |-> asset_id,
                           item_in |-> [asset_id    |-> asset_id,
                                        template_id |-> Some(template_id),
                                        quantity    |-> 1,
                                        expires_at  |-> PyNone]]
          \/ \E location_id \in 1 .. MaxLocations :
                req' = [op |-> "delete_location", caller |-> caller,
                        location_id |-> location_id]
          \/ \E template_id \in 1 .. MaxTemplates :
                req' = [op |-> "delete_asset_template", caller |-> caller,
                        template_id |-> template_id]
          \/ \E asset_id \in 1 .. MaxRefAssets :
                req' = [op |-> "delete_asset", caller |-> caller,
                        asset_id |-> asset_id]
    /\ UNCHANGED <<users, assets, nextAssetId, sensors, nextSensorId, resp,
                   walk, call, templates, locations, threads, items,
                   inventories, serials>>

DeleteLocation ==
    /\ Pending
    /\ req.op = "delete_location"
    /\ LET out == delete_location(req)
       IN  /\ locations' = out.locations
           /\ assets' = out.assets
           /\ resp' = out.resp
    /\ UNCHANGED <<users, nextAssetId, sensors, nextSensorId, req, walk, call,
                   templates, threads, items, inventories, serials>>

DeleteAssetTemplate ==
    /\ Pending
    /\ req.op = "delete_asset_template"
    /\ LET out == delete_asset_template(req)
       IN  templates' = out.templates /\ resp' = out.resp
    /\ UNCHANGED <<users, assets, nextAssetId, sensors, nextSensorId, req,
                   walk, call, locations, threads, items, inventories,
                   serials>>

-----------------------------------------------------------------------------
(* Requests served at the same time *)

\* The worker threads that serve requests at the same time.
Threads == 1 .. MaxThreads

ThreadIdle == [pc |-> "idle"]

\* The parent ids the requests of concurrent clients carry.
RaceParentIn == {PyNone, Some(1)}

\* A thread takes a POST /assets/ request and runs create_asset up to the call
\* of crud_asset.create_asset; the session has written nothing yet.
ThreadCreateAssetChecks ==
    /\ Idle
    /\ \E t \in Threads, caller \in DOMAIN users,
          parent_id \in RaceParentIn, code \in CodeIn :
          LET r == [op |-> "create_asset", caller |-> caller,
                    parent_id |-> parent_id, code |-> code,
                    asset_type |-> Some("inverter")]
              rejected == create_asset_checks(r)
          IN  /\ threads[t] = ThreadIdle
              /\ nextAssetId <= MaxAssets
              /\ threads' = [threads EXCEPT ![t] =
                               IF rejected # PyNone
                               THEN [pc |-> "done", r |-> r, resp |-> rejected[1]]
                               ELSE [pc |-> "write", r |-> r]]
    /\ UNCHANGED <<users, assets, nextAssetId, sensors, nextSensorId, req,
                   resp, walk, call, templates, locations, items, inventories,
                   serials>>

\* The thread runs crud_asset.create_asset: INSERT and commit, which the
\* constraints of the table may refuse, and the handler returns or lets the
\* exception escape.
ThreadCreateAssetWrite ==
    /\ \E t \in Threads :
          /\ threads[t].pc = "write"
          /\ threads[t].r.op = "create_asset"
          /\ LET r == threads[t].r
                 made == crud_asset_create_asset(assets, locations, templates,
                                                 nextAssetId, r)
             IN  /\ assets' = made.assets
                 /\ nextAssetId' = nextAssetId + 1
                 /\ threads' = [threads EXCEPT ![t] =
                                  [pc |-> "done", r |-> r,
                                   resp |-> IF made.exc # "none"
                                            THEN ServerError
                                            ELSE Response(200, "asset")]]
    /\ UNCHANGED <<users, sensors, nextSensorId, req, resp, walk, call,
                   templates, locations, items, inventories, serials>>

\* The thread has sent its response and is free again.
ThreadRespond ==
    /\ \E t \in Threads :
          /\ threads[t].pc = "done"
          /\ threads' = [threads EXCEPT ![t] = ThreadIdle]
    /\ UNCHANGED <<users, assets, nextAssetId, sensors, nextSensorId, req,
                   resp, walk, call, templates, locations, items, inventories,
                   serials>>

\* The clients of the three endpoints work one request at a time: a request to
\* an endpoint is in flight while a thread serves it.
InFlight(op) ==
    \E u \in Threads : threads[u] # ThreadIdle /\ threads[u].r.op = op

\* The ids of the assets that concurrent update and delete requests name.
RaceAssetIds == 1 .. MaxRaceAssets

\* A thread takes a POST /assets/ request for an asset without code and runs
\* create_asset up to the call of crud_asset.create_asset.
ThreadCreateChildChecks ==
    /\ Idle
    /\ \E t \in Threads, caller \in DOMAIN users, parent_id \in RaceParentIn :
          LET r == [op |-> "create_asset", caller |-> caller,
                    parent_id |-> parent_id, asset_type |-> Some("inverter")]
              rejected == create_asset_checks(r)
          IN  /\ threads[t] = ThreadIdle
              /\ ~ InFlight(r.op)
              /\ nextAssetId <= MaxRaceAssets
              /\ threads' = [threads EXCEPT ![t] =
                               IF rejected # PyNone
                               THEN [pc |-> "done", r |-> r, resp |-> rejected[1]]
                               ELSE [pc |-> "write", r |-> r]]
    /\ UNCHANGED <<users, assets, nextAssetId, sensors, nextSensorId, req,
                   resp, walk, call, templates, locations, items, inventories,
                   serials>>

\* A thread takes a PUT /assets/{asset_id} request that moves the asset under
\* another parent, or to the top, and runs update_asset up to the call of
\* crud_asset.update_asset.  row is the Asset object the session has loaded.
ThreadUpdateAssetChecks ==
    /\ Idle
    /\ \E t \in Threads, caller \in DOMAIN users, asset_id \in RaceAssetIds,
          parent_id \in RaceParentIn :
          LET r == [op |-> "update_asset", caller |-> caller,
                    asset_id |-> asset_id,
                    asset_in |-> [f \in {"parent_id"} |-> parent_id]]
              rejected == update_asset_checks(r)
          IN  /\ threads[t] = ThreadIdle
              /\ ~ InFlight(r.op)
              /\ parent_id # Some(asset_id)
              /\ threads' = [threads EXCEPT ![t] =
                               IF rejected # PyNone
                               THEN [pc |-> "done", r |-> r, resp |-> rejected[1]]
                               ELSE [pc |-> "write", r |-> r,
                                     row |-> assets[asset_id]]]
    /\ UNCHANGED <<users, assets, nextAssetId, sensors, nextSensorId, req,
                   resp, walk, call, templates, locations, items, inventories,
                   serials>>

\* The thread runs crud_asset.update_asset on the object it loaded: setattr
\* marks the attributes that get another value, the commit writes these to
\* the row (StaleDataError when the row is gone, IntegrityError when a
\* constraint is broken) and db.refresh reads the row again.
ThreadUpdateAssetWrite ==
    /\ \E t \in Threads :
          /\ threads[t].pc = "write"
          /\ threads[t].r.op = "update_asset"
          /\ LET r       == threads[t].r
                 row     == threads[t].row
                 changed == {f \in DOMAIN r.asset_in : r.asset_in[f] # row[f]}
                 dirty   == [f \in changed |-> r.asset_in[f]]
             IN  IF get_asset(assets, r.asset_id) = PyNone
                 THEN /\ assets' = assets
                      /\ threads' = [threads EXCEPT ![t] =
                                       [pc |-> "done", r |-> r,
                                        resp |-> ServerError]]
                 ELSE LET made == crud_asset_update_asset(assets, locations,
                                         templates, r.asset_id, dirty)
                      IN  /\ assets' = made.assets
                          /\ threads' = [threads EXCEPT ![t] =
                                           [pc |-> "done", r |-> r,
                                            resp |-> IF made.exc # "none"
                                                     THEN ServerError
                                                     ELSE Response(200, "asset")]]
    /\ UNCHANGED <<users, nextAssetId, sensors, nextSensorId, req, resp, walk,
                   call, templates, locations, items, inventories, serials>>

\* A thread takes a DELETE /assets/{asset_id} request and runs delete_asset up
\* to the call of crud_asset.delete_asset.
ThreadDeleteAssetChecks ==
    /\ Idle
    /\ \E t \in Threads, caller \in DOMAIN users, asset_id \in RaceAssetIds :
          LET r == [op |-> "delete_asset", caller |-> caller,
                    asset_id |-> asset_id]
              rejected == delete_asset_checks(r)
          IN  /\ threads[t] = ThreadIdle
              /\ ~ InFlight(r.op)
              /\ threads' = [threads EXCEPT ![t] =
                               IF rejected # PyNone
                               THEN [pc |-> "done", r |-> r, resp |-> rejected[1]]
                               ELSE [pc |-> "write", r |-> r]]
    /\ UNCHANGED <<users, assets, nextAssetId, sensors, nextSensorId, req,
                   resp, walk, call, templates, locations, items, inventories,
                   serials>>

\* The thread enters crud_asset.delete_asset: it reads the asset again and
\* returns False when it is gone; db.delete and the start of the flush load
\* Asset.children, the rows that refer to the asset at that moment.
ThreadDeleteAssetLoad ==
    /\ \E t \in Threads :
          /\ threads[t].pc = "write"
          /\ threads[t].r.op = "delete_asset"
          /\ LET r == threads[t].r
             IN  threads' = [threads EXCEPT ![t] =
                    IF get_asset(assets, r.asset_id) = PyNone
                    THEN [pc |-> "done", r |-> r, seen |-> {},
                          resp |-> Response(200, "false")]
                    ELSE [pc |-> "flush", r |-> r,
                          seen |-> get_assets(assets, r.asset_id)]]
    /\ UNCHANGED <<users, assets, nextAssetId, sensors, nextSensorId, req,
                   resp, walk, call, templates, locations, items, inventories,
                   serials>>

\* The flush and the commit of crud_asset.delete_asset, and the handler
\* returns or lets the exception escape.
ThreadDeleteAssetFlush ==
    /\ \E t \in Threads :
          /\ threads[t].pc = "flush"
          /\ LET r    == threads[t].r
                 gone == flush_delete_asset(assets, sensors, items, r.asset_id,
                                            threads[t].seen)
             IN  /\ assets' = gone.assets
                 /\ threads' = [threads EXCEPT ![t] =
                                  [pc |-> "done", r |-> r,
                                   seen |-> threads[t].seen,
                                   resp |-> IF gone.exc # "none"
                                            THEN ServerError
                                            ELSE Response(200, "true")]]
    /\ UNCHANGED <<users, nextAssetId, sensors, nextSensorId, req, resp, walk,
                   call, templates, locations, items, inventories, serials>>

\* A thread takes a POST /assets/inventory/ request and runs
\* create_store_inventory up to the call of crud_asset.create_store_inventory.
ThreadCreateStoreInventoryChecks ==
    /\ Idle
    /\ \E t \in Threads, caller \in DOMAIN users,
          template_id \in 0 .. MaxTemplates :
          LET r == [op |-> "create_store_inventory", caller |-> caller,
                    inventory_in |-> [template_id |-> template_id,
                                      quantity |-> 0]]
              rejected == create_store_inventory_checks(r)
          IN  /\ threads[t] = ThreadIdle
              /\ serials.store_inventory <= MaxInventories
              /\ threads' = [threads EXCEPT ![t] =
                               IF rejected # PyNone
                               THEN [pc |-> "done", r |-> r, resp |-> rejected[1]]
                               ELSE [pc |-> "write", r |-> r]]
    /\ UNCHANGED <<users, assets, nextAssetId, sensors, nextSensorId, req,
                   resp, walk, call, templates, locations, items, inventories,
                   serials>>

\* The thread runs crud_asset.create_store_inventory: INSERT and commit, and
\* the handler returns or lets the exception escape.
ThreadCreateStoreInventoryWrite ==
    /\ \E t \in Threads :
          /\ threads[t].pc = "write"
          /\ threads[t].r.op = "create_store_inventory"
          /\ LET r == threads[t].r
                 made == crud_asset_create_store_inventory(inventories, templates,
                             serials.store_inventory, r.inventory_in)
             IN  /\ inventories' = made.inventories
                 /\ serials' = [serials EXCEPT !.store_inventory = @ + 1]
                 /\ threads' = [threads EXCEPT ![t] =
                                  [pc |-> "done", r |-> r,
                                   resp |-> IF made.exc # "none"
                                            THEN ServerError
                                            ELSE Response(200, "inventory")]]
    /\ UNCHANGED <<users, assets, nextAssetId, sensors, nextSensorId, req,
                   resp, walk, call, templates, locations, items>>

-----------------------------------------------------------------------------
(* Direct calls of the PermissionChecker functions *)

NoCall == [fn |-> "none"]

\* Every role of the enum and one value that has no entry in ROLE_PERMISSIONS.
RoleArgs == Roles \cup {"guest"}

ResourceArgs == {"user", "asset", "work_order", "audit", "audit_log", "Asset", ""}

ActionArgs == {"read", "create", "admin", "approve", "manage", "READ", "order:read", ""}

CallHasPermission ==
    /\ \E user_role \in RoleArgs, permission \in Permission :
          call' = [fn |-> "has_permission", user_role |-> user_role,
                   permission |-> permission,
                   ret |-> has_permission(user_role, permission)]
    /\ UNCHANGED <<users, assets, nextAssetId, sensors, nextSensorId, req,
                   resp, walk, templates, locations, threads, items,
                   inventories, serials>>

CallGetUserPermissions ==
    /\ \E user_role \in RoleArgs :
          call' = [fn |-> "get_user_permissions", user_role |-> user_role,
                   ret |-> get_user_permissions(user_role)]
    /\ UNCHANGED <<users, assets, nextAssetId, sensors, nextSensorId, req,
                   resp, walk, templates, locations, threads, items,
                   inventories, serials>>

CallCanAccessResource ==
    /\ \E user_role \in RoleArgs, resource \in ResourceArgs, action \in ActionArgs :
          LET out == can_access_resource(user_role, resource, action)
          IN  call' = [fn |-> "can_access_resource", user_role |-> user_role,
                       resource |-> resource, action |-> action,
                       exc |-> out.exc, ret |-> out.ret]
    /\ UNCHANGED <<users, assets, nextAssetId, sensors, nextSensorId, req,
                   resp, walk, templates, locations, threads, items,
                   inventories, serials>>

CallGetManageableRoles ==
    /\ \E user_role \in RoleArgs :
          call' = [fn |-> "get_manageable_roles", user_role |-> user_role,
                   ret |-> get_manageable_roles(user_role)]
    /\ UNCHANGED <<users, assets, nextAssetId, sensors, nextSensorId, req,
                   resp, walk, templates, locations, threads, items,
                   inventories, serials>>

-----------------------------------------------------------------------------
(* Specifications *)

\* scripts/init_db.py: the first default user is the super administrator.
Init ==
    /\ users = << [email |-> 1, role |-> "super_admin",
                   status |-> "active", is_active |-> TRUE,
                   deleted_at |-> PyNone,
                   hashed_password |-> get_password_hash("secret"),
                   login_count |-> 0, failed_login_attempts |-> 0,
                   last_login |-> PyNone] >>
    /\ assets = << >>
    /\ nextAssetId = 1
    /\ sensors = << >>
    /\ nextSensorId = 1
    /\ req = NoReq
    /\ resp = NoResp
    /\ walk = NoWalk
    /\ call = NoCall
    /\ templates = << >>
    /\ locations = << >>
    /\ threads = [t \in Threads |-> ThreadIdle]
    /\ items = << >>
    /\ inventories = << >>
    /\ serials = [locations |-> 1, asset_templates |-> 1, asset_items |-> 1,
                  store_inventory |-> 1]

NextPerm ==
    \/ CallHasPermission
    \/ CallGetUserPermissions
    \/ CallCanAccessResource
    \/ CallGetManageableRoles

SpecPerm == Init /\ [][NextPerm]_vars

\* scripts/init_db.py: the default users, here the super administrator and
\* the viewer.
InitSeeded ==
    /\ users = << [email |-> 1, role |-> "super_admin",
                   status |-> "active", is_active |-> TRUE,
                   deleted_at |-> PyNone,
                   hashed_password |-> get_password_hash("secret"),
                   login_count |-> 0, failed_login_attempts |-> 0,
                   last_login |-> PyNone],
                  [email |-> 2, role |-> "viewer",
                   status |-> "active", is_active |-> TRUE,
                   deleted_at |-> PyNone,
                   hashed_password |-> get_password_hash("secret"),
                   login_count |-> 0, failed_login_attempts |-> 0,
                   last_login |-> PyNone] >>
    /\ assets = << >>
    /\ nextAssetId = 1
    /\ sensors = << >>
    /\ nextSensorId = 1
    /\ req = NoReq
    /\ resp = NoResp
    /\ walk = NoWalk
    /\ call = NoCall
    /\ templates = << >>
    /\ locations = << >>
    /\ threads = [t \in Threads |-> ThreadIdle]
    /\ items = << >>
    /\ inventories = << >>
    /\ serials = [locations |-> 1, asset_templates |-> 1, asset_items |-> 1,
                  store_inventory |-> 1]

NextAsset ==
    \/ ReceiveAssetRequest
    \/ ReceiveSensorRequest
    \/ CreateAsset
    \/ UpdateAsset
    \/ DeleteAsset
    \/ CreateAssetSensor
    \/ DeleteAssetSensor
    \/ GetAssetAncestors
    \/ GetAssetAncestorsWhile
    \/ GetAssetAncestorsBody
    \/ Respond

SpecAsset == InitSeeded /\ [][NextAsset]_vars

\* The server keeps running a handler it has entered.
FairSpecAsset ==
    SpecAsset /\ WF_vars(GetAssetAncestorsWhile \/ GetAssetAncestorsBody)

NextAncestors ==
    \/ ReceiveAssetRequest
    \/ ReceiveCrudAncestorsCall
    \/ CreateAsset
    \/ UpdateAsset
    \/ DeleteAsset
    \/ GetAssetAncestors
    \/ CrudGetAssetAncestors
    \/ GetAssetAncestorsWhile
    \/ GetAssetAncestorsBody
    \/ Respond

SpecAncestors == InitSeeded /\ [][NextAncestors]_vars

NextHierarchy ==
    \/ ReceiveAssetRequest
    \/ ReceiveHierarchyRequest
    \/ CreateAsset
    \/ UpdateAsset
    \/ DeleteAsset
    \/ GetAssetAncestors
    \/ GetAssetAncestorsWhile
    \/ GetAssetAncestorsBody
    \/ GetAssetHierarchy
    \/ CrudGetAssetHierarchy
    \/ Respond

SpecHierarchy == InitSeeded /\ [][NextHierarchy]_vars

NextRace ==
    \/ ThreadCreateAssetChecks
    \/ ThreadCreateAssetWrite
    \/ ThreadRespond

SpecRace == InitSeeded /\ [][NextRace]_vars

NextInterleave ==
    \/ ThreadCreateChildChecks
    \/ ThreadCreateAssetWrite
    \/ ThreadUpdateAssetChecks
    \/ ThreadUpdateAssetWrite
    \/ ThreadDeleteAssetChecks
    \/ ThreadDeleteAssetLoad
    \/ ThreadDeleteAssetFlush
    \/ ThreadRespond

SpecInterleave == Init /\ [][NextInterleave]_vars

NextItem ==
    \/ ReceiveItemRequest
    \/ CreateAssetTemplate
    \/ CreateAsset
    \/ CreateAssetItem
    \/ Respond

SpecItem == Init /\ [][NextItem]_vars

NextInventory ==
    \/ ReceiveTemplateRequest
    \/ CreateAssetTemplate
    \/ UpdateAssetTemplate
    \/ Respond
    \/ ThreadCreateStoreInventoryChecks
    \/ ThreadCreateStoreInventoryWrite
    \/ ThreadRespond

SpecInventory == Init /\ [][NextInventory]_vars

NextReferences ==
    \/ ReceiveReferenceRequest
    \/ CreateLocation
    \/ CreateAssetTemplate
    \/ CreateAsset
    \/ CreateAssetSensor
    \/ CreateAssetItem
    \/ DeleteLocation
    \/ DeleteAssetTemplate
    \/ DeleteAsset
    \/ Respond

SpecReferences == Init /\ [][NextReferences]_vars

NextUser ==
    \/ ReceiveUserRequest
    \/ CreateNewUser
    \/ UpdateUserRoleById
    \/ Respond

SpecUser == Init /\ [][NextUser]_vars

NextRefs ==
    \/ ReceiveLocationRequest
    \/ ReceiveTemplateRequest
    \/ ReceiveAssetRefsRequest
    \/ CreateLocation
    \/ CreateAssetTemplate
    \/ UpdateAssetTemplate
    \/ CreateAsset
    \/ UpdateAsset
    \/ Respond

SpecRefs == Init /\ [][NextRefs]_vars

NextTemplate ==
    \/ ReceiveTemplateRequest
    \/ ReceiveTemplatedAssetRequest
    \/ CreateAssetTemplate
    \/ UpdateAssetTemplate
    \/ CreateAsset
    \/ UpdateAsset
    \/ Respond

SpecTemplate == Init /\ [][NextTemplate]_vars

NextAccount ==
    \/ ReceiveCrudUserCall
    \/ ReceiveCrudDeletionCall
    \/ CrudCreateUser
    \/ CrudUpdateUser
    \/ CrudUpdateUserRole
    \/ CrudSoftDeleteUser
    \/ CrudRestoreUser
    \/ Respond

SpecAccount == Init /\ [][NextAccount]_vars

NextLogin ==
    \/ ReceiveCrudDeletionCall
    \/ ReceiveLoginRequest
    \/ CrudSoftDeleteUser
    \/ CrudRestoreUser
    \/ CrudAuthenticateUser
    \/ LoginAccessToken
    \/ Respond

SpecLogin == InitSeeded /\ [][NextLogin]_vars

NextPatch ==
    \/ ReceiveAssetPatchRequest
    \/ CreateAsset
    \/ UpdateAsset
    \/ Respond

SpecPatch == Init /\ [][NextPatch]_vars

NextUserDelete ==
    \/ ReceiveCreateUserRequest
    \/ ReceiveDeleteUserRequest
    \/ CreateNewUser
    \/ DeleteUser
    \/ Respond

SpecUserDelete == Init /\ [][NextUserDelete]_vars

-----------------------------------------------------------------------------
(* Vocabulary of the claims *)

\* The error classes of the specification, by the guard that produced the
\* response: Forbidden is a failed permission check, a failed manageable-roles
\* check or a failed self-action guard.
ForbiddenDetails ==
    { "Not enough permissions to create users",
      "Not enough permissions to update user roles",
      "Cannot create user with role",
      "Cannot assign role",
      "Cannot change your own role",
      "Not enough permissions to delete users",
      "Cannot delete your own account",
      "Cannot delete super admin user" }

Forbidden(r) == r.detail \in ForbiddenDetails

Succeeded(r) == r.status \in {200, 201}

\* The step in which the handler of the pending request op runs.
Handles(op) == Pending /\ req.op = op /\ resp' # NoResp

\* The caller of the pending request passed get_current_active_user.
CallerAdmitted == users[req.caller].is_active

CallerRole == users[req.caller].role

Manageable(role) == SeqToSet(get_manageable_roles(role))

-----------------------------------------------------------------------------
(* C1 *)

\* The permission of the role-permission table that corresponds to a mutating
\* asset request.
RequiredPermission(op) ==
    CASE op = "create_asset" -> "asset:create"
      [] op = "update_asset" -> "asset:update"
      [] op = "delete_asset" -> "asset:delete"

\* C1: a create_asset, update_asset or delete_asset request of a caller whose
\* role lacks asset:create, asset:update or asset:delete respectively is
\* rejected as Forbidden and leaves the asset store unchanged.
C1_MutationNeedsPermission ==
    [][ ( /\ Pending
          /\ req.op \in {"create_asset", "update_asset", "delete_asset"}
          /\ resp' # NoResp
          /\ CallerAdmitted
          /\ ~has_permission(CallerRole, RequiredPermission(req.op)) )
        => (Forbidden(resp') /\ assets' = assets) ]_vars

-----------------------------------------------------------------------------
(* C2 *)

\* The asset reached from asset i by following parent_id n times, PyNone when
\* the chain ends earlier.
RECURSIVE Climb(_, _)
Climb(i, n) ==
    IF n = 0 THEN Some(i)
    ELSE LET below == Climb(i, n - 1)
         IN  IF below = PyNone \/ below[1] \notin DOMAIN assets
             THEN PyNone
             ELSE IF TruthyInt(assets[below[1]].parent_id)
                  THEN assets[below[1]].parent_id
                  ELSE PyNone

\* C2: in every reachable state the parent chain of every asset is acyclic:
\* following parent_id from an asset one or more times never returns to it.
C2_ParentChainAcyclic ==
    \A i \in DOMAIN assets : \A n \in 1 .. MaxAssets : Climb(i, n) # Some(i)

-----------------------------------------------------------------------------
(* C3 *)

\* C3: get_asset_ancestors terminates: a loop that has been entered returns.
C3_AncestorsTerminates == (walk # NoWalk) ~> (walk = NoWalk)

-----------------------------------------------------------------------------
(* C4 *)

\* C4: delete_asset on an existing asset with at least one child answers with
\* the has-children Conflict and leaves every asset row unchanged; on an
\* existing asset without children it succeeds, returns true, and get_asset of
\* that id returns None afterwards.
C4_DeleteGuardedByChildren ==
    [][ ( /\ Handles("delete_asset")
          /\ CallerAdmitted
          /\ get_asset(assets, req.asset_id) # PyNone )
        => IF get_assets(assets, req.asset_id) # {}
           THEN /\ resp'.status = 400
                /\ assets' = assets
           ELSE /\ resp' = Response(200, "true")
                /\ get_asset(assets', req.asset_id) = PyNone ]_vars

-----------------------------------------------------------------------------
(* C5 *)

\* C5 as stated: whenever create_new_user or update_user_role_by_id is asked
\* for a role T outside get_manageable_roles(R) of the caller's role R, the
\* response is Forbidden and the users table is unchanged; and a role only
\* ever appears on a user through a request whose T is manageable by R.
C5_UnmanageableRoleIsForbidden ==
    [][ ( /\ Handles("create_new_user") \/ Handles("update_user_role_by_id")
          /\ CallerAdmitted
          /\ req.role \notin Manageable(CallerRole) )
        => (Forbidden(resp') /\ users' = users) ]_vars

\* C5 amended: such a request is always rejected and leaves the users table
\* unchanged, and it is Forbidden unless an earlier check of the handler
\* answered first: create_new_user answers 400 "email already exists" to a
\* caller holding user:create, update_user_role_by_id answers 404 to a caller
\* holding user:admin whose target does not exist.  A user's role is set to T
\* only by a request of a caller whose role manages T, so only a super_admin
\* produces a super_admin or an admin.
C5_RoleSetOnlyIfManageable ==
    [][ /\ ( /\ Handles("create_new_user") \/ Handles("update_user_role_by_id")
             /\ CallerAdmitted
             /\ req.role \notin Manageable(CallerRole) )
           => /\ ~Succeeded(resp')
              /\ users' = users
              /\ \/ Forbidden(resp')
                 \/ /\ req.op = "create_new_user"
                    /\ has_permission(CallerRole, "user:create")
                    /\ get_user_by_email(users, req.email) # PyNone
                    /\ resp' = Response(400, "A user with this email already exists")
                 \/ /\ req.op = "update_user_role_by_id"
                    /\ has_permission(CallerRole, "user:admin")
                    /\ get_user(users, req.user_id) = PyNone
                    /\ resp' = Response(404, "User not found")
        /\ \A u \in DOMAIN users' :
              (u \notin DOMAIN users \/ users'[u].role # users[u].role)
              => /\ Handles("create_new_user") \/ Handles("update_user_role_by_id")
                 /\ CallerAdmitted
                 /\ users'[u].role = req.role
                 /\ req.role \in Manageable(CallerRole)
                 /\ (req.role \in {"super_admin", "admin"} => CallerRole = "super_admin")
      ]_vars

\* An admin asked for a super_admin user under a free e-mail address and was
\* refused by the manageable-roles check.
C5_Witness ==
    /\ Done
    /\ req.op = "create_new_user"
    /\ users[req.caller].role = "admin"
    /\ req.role = "super_admin"
    /\ resp = Response(403, "Cannot create user with role")

-----------------------------------------------------------------------------
(* C6 *)

\* The fixed table entry of a role: its permission set, empty for a role the
\* table does not map.
TableEntry(role) ==
    IF role \in DOMAIN ROLE_PERMISSIONS THEN ROLE_PERMISSIONS[role] ELSE {}

\* C6: for every role R and permission P, has_permission(R, P) returns a
\* boolean equal to the membership of P in the table entry of R (the empty set
\* for an unmapped role), and get_user_permissions(R) returns exactly
\* {P : has_permission(R, P)}.
C6_HasPermissionIsTableMembership ==
    /\ call.fn = "has_permission"
          => /\ call.ret \in BOOLEAN
             /\ call.ret = (call.permission \in TableEntry(call.user_role))
    /\ call.fn = "get_user_permissions"
          => /\ call.ret = {P \in Permission : has_permission(call.user_role, P)}
             /\ call.ret = TableEntry(call.user_role)

\* has_permission was asked about a role the table does not map and denied.
C6_Witness ==
    /\ call.fn = "has_permission"
    /\ call.user_role = "guest"
    /\ call.permission = "asset:read"
    /\ call.ret = FALSE

-----------------------------------------------------------------------------
(* C7 *)

\* C7: get_manageable_roles(super_admin) holds each of the 10 roles,
\* super_admin included; for admin exactly the eight roles below admin; for
\* plant_manager exactly {site_supervisor, technician, operator}; for
\* site_supervisor exactly {technician}; and the empty list for any other role.
C7_ManageableRolesTable ==
    call.fn = "get_manageable_roles"
       => LET got == SeqToSet(call.ret)
          IN  CASE call.user_role = "super_admin" ->
                     /\ Cardinality(got) = 10
                     /\ got = { "super_admin", "admin", "plant_manager",
                                "site_supervisor", "technician", "operator",
                                "analyst", "viewer", "customer", "contractor" }
                     /\ got = Roles
                [] call.user_role = "admin" ->
                     got = { "plant_manager", "site_supervisor", "technician",
                             "operator", "analyst", "viewer", "customer",
                             "contractor" }
                [] call.user_role = "plant_manager" ->
                     got = { "site_supervisor", "technician", "operator" }
                [] call.user_role = "site_supervisor" ->
                     got = { "technician" }
                [] OTHER -> call.ret = << >>

\* get_manageable_roles was asked for admin and answered with eight roles,
\* admin not among them.
C7_Witness ==
    /\ call.fn = "get_manageable_roles"
    /\ call.user_role = "admin"
    /\ Len(call.ret) = 8
    /\ "admin" \notin SeqToSet(call.ret)

-----------------------------------------------------------------------------
(* C8 *)

\* C8: can_access_resource(role, resource, action) never raises; it returns
\* false when "resource:action" is not the value of a Permission member and
\* has_permission(role, Permission("resource:action")) otherwise.
C8_CanAccessResourceNeverRaises ==
    call.fn = "can_access_resource"
       => LET permission_str == call.resource \o ":" \o call.action
          IN  /\ call.exc = "none"
              /\ permission_str \notin Permission => call.ret = FALSE
              /\ permission_str \in Permission
                    => call.ret = has_permission(call.user_role, permission_str)

\* can_access_resource was asked for "Asset:read", which is no Permission
\* value, by a role that holds asset:read, and returned false without raising.
C8_Witness ==
    /\ call.fn = "can_access_resource"
    /\ call.user_role = "super_admin"
    /\ call.resource = "Asset"
    /\ call.action = "read"
    /\ call.exc = "none"
    /\ call.ret = FALSE

-----------------------------------------------------------------------------
(* C9 *)

\* C9: update_user_role_by_id on another user by a caller whose role lacks
\* user:admin is answered Forbidden and leaves every user row (so the target's
\* role and status) unchanged; the roles lacking user:admin are all roles but
\* super_admin and admin.
C9_RoleUpdateNeedsUserAdmin ==
    /\ {r \in Roles : ~has_permission(r, "user:admin")}
          = Roles \ {"super_admin", "admin"}
    /\ [][ ( /\ Handles("update_user_role_by_id")
             /\ CallerAdmitted
             /\ ~has_permission(CallerRole, "user:admin")
             /\ req.user_id # req.caller )
           => (Forbidden(resp') /\ users' = users) ]_vars

\* A site_supervisor tried to change another existing user's role and got 403.
C9_Witness ==
    /\ Done
    /\ req.op = "update_user_role_by_id"
    /\ users[req.caller].role = "site_supervisor"
    /\ users[req.caller].is_active
    /\ req.user_id # req.caller
    /\ req.user_id \in DOMAIN users
    /\ req.role = "technician"
    /\ resp = Response(403, "Not enough permissions to update user roles")

-----------------------------------------------------------------------------
(* C10 *)

-----------------------------------------------------------------------------
(* C11 *)

-----------------------------------------------------------------------------
(* C12 *)

\* The number of assets above asset i on its parent chain, counted up to
\* MaxAssets.
Depth(i) == Cardinality({n \in 1 .. MaxAssets : Climb(i, n) # PyNone})

\* The parent chain of asset i: its parent, its parent's parent, ..., up to
\* the asset without parent; empty for an id that is no asset.
ParentChain(i) ==
    IF i \notin DOMAIN assets THEN << >>
    ELSE [n \in 1 .. Depth(i) |-> Climb(i, n)[1]]

\* C12: the list get_asset_ancestors returns is the parent chain of the asset
\* nearest-first: it starts at the asset's parent, ends at an asset without
\* parent, does not hold the asset itself, and is empty when the asset does
\* not exist or has no parent.
C12_AncestorsNearestFirst ==
    [][ ( /\ Pending
          /\ req.op \in {"get_asset_ancestors", "crud_asset.get_asset_ancestors"}
          /\ resp' # NoResp
          /\ resp'.detail = "ancestors" )
        => LET ret == resp'.ancestors
           IN  /\ ret = ParentChain(req.asset_id)
               /\ req.asset_id \notin SeqToSet(ret)
               /\ req.asset_id \notin DOMAIN assets => ret = << >>
               /\ ( /\ req.asset_id \in DOMAIN assets
                    /\ assets[req.asset_id].parent_id = PyNone ) => ret = << >>
               /\ ret # << >>
                     => /\ assets[req.asset_id].parent_id = Some(ret[1])
                        /\ assets[ret[Len(ret)]].parent_id = PyNone
                        /\ \A n \in 1 .. (Len(ret) - 1) :
                              assets[ret[n]].parent_id = Some(ret[n + 1]) ]_vars

\* For the chain 1 <- 2 <- 3 the ancestors of 3 came back as <<2, 1>>.
C12_Witness ==
    /\ Done
    /\ req.op = "crud_asset.get_asset_ancestors"
    /\ req.asset_id = 3
    /\ DOMAIN assets = {1, 2, 3}
    /\ assets[3].parent_id = Some(2)
    /\ assets[2].parent_id = Some(1)
    /\ assets[1].parent_id = PyNone
    /\ resp.detail = "ancestors"
    /\ resp.ancestors = <<2, 1>>

-----------------------------------------------------------------------------
(* C13 *)

\* The assets below asset i: those whose parent chain passes through i.
Descendants(i) ==
    {j \in DOMAIN assets : \E n \in 1 .. MaxAssets : Climb(j, n) = Some(i)}

\* The list holds, from each position on, the asset there followed by exactly
\* the assets below it.
PreOrder(list) ==
    \A k \in DOMAIN list :
       LET size == Cardinality(Descendants(list[k]))
       IN  /\ k + size <= Len(list)
           /\ {list[m] : m \in k .. (k + size)} = {list[k]} \cup Descendants(list[k])

\* C13: crud_asset.get_asset_hierarchy of an existing asset returns the asset
\* followed by every asset below it at any depth, each exactly once and
\* nothing else, in pre-order; of an id that is no asset it returns the empty
\* list.
C13_HierarchyDeepPreOrder ==
    (Done /\ req.op = "crud_asset.get_asset_hierarchy")
       => IF req.asset_id \notin DOMAIN assets
          THEN resp.detail = "hierarchy" /\ resp.hierarchy = << >>
          ELSE /\ resp.detail = "hierarchy"
               /\ resp.hierarchy[1] = req.asset_id
               /\ SeqToSet(resp.hierarchy)
                     = {req.asset_id} \cup Descendants(req.asset_id)
               /\ Len(resp.hierarchy) = Cardinality(SeqToSet(resp.hierarchy))
               /\ PreOrder(resp.hierarchy)

-----------------------------------------------------------------------------
(* C14 *)

\* C14: the hierarchy endpoint returns the asset and all assets below it at
\* every depth: its children list holds every descendant of the asset.
C14_EndpointReturnsDeepHierarchy ==
    (Done /\ req.op = "get_asset_hierarchy" /\ resp.detail = "hierarchy")
       => Descendants(req.asset_id) \subseteq SeqToSet(resp.children)

-----------------------------------------------------------------------------
(* C15 *)

\* The assets other than asset_id that carry the code.
OthersWithCode(asset_id, code) ==
    {i \in DOMAIN assets : i # asset_id /\ assets[i].code = code}

\* C15: a create_asset or update_asset request that supplies a non-null code
\* which a different existing asset already has is answered by the pre-check
\* with the Conflict "An asset with this code already exists." and writes
\* nothing, whatever the code is.
C15_DuplicateCodeIsConflict ==
    [][ /\ ( /\ Handles("create_asset")
             /\ CallerAdmitted
             /\ req.code # PyNone
             /\ OthersWithCode(0, req.code) # {} )
           => /\ resp' = Response(400, "An asset with this code already exists.")
              /\ assets' = assets
        /\ ( /\ Handles("update_asset")
             /\ CallerAdmitted
             /\ req.asset_id \in DOMAIN assets
             /\ "code" \in DOMAIN req.asset_in
             /\ req.asset_in.code # PyNone
             /\ OthersWithCode(req.asset_id, req.asset_in.code) # {} )
           => /\ resp' = Response(400, "An asset with this code already exists.")
              /\ assets' = assets
      ]_vars

\* In every reachable state no two assets share a non-null code.
CodesUnique ==
    \A i, j \in DOMAIN assets :
       (i # j /\ assets[i].code # PyNone) => assets[i].code # assets[j].code

-----------------------------------------------------------------------------
(* C16 *)

\* C16: when a create_asset request with a non-empty code passed the pre-check
\* and the insert is refused because another request has stored the same code
\* in between, the client gets the Conflict of the pre-check, never an
\* unhandled failure.
C16_DuplicateKeyIsConflict ==
    [][ \A t \in Threads :
          ( /\ threads[t].pc = "write"
            /\ threads'[t].pc = "done"
            /\ TruthyStr(threads[t].r.code)
            /\ OthersWithCode(0, threads[t].r.code) # {} )
          => /\ threads'[t].resp
                  = Response(400, "An asset with this code already exists.")
             /\ assets' = assets ]_vars

-----------------------------------------------------------------------------
(* C17 *)

\* NotFound is the response of a lookup that found no row for a referenced id.
NotFoundDetails ==
    { "Parent asset not found.",
      "Location not found.",
      "Asset template not found." }

NotFound(r) == r.detail \in NotFoundDetails

\* The table a reference field of an asset points into.
RefTable(f) ==
    CASE f = "parent_id"   -> assets
      [] f = "location_id" -> locations
      [] f = "template_id" -> templates

\* The body supplies a parent_id, location_id or template_id without a row.
Dangling(body) ==
    \E f \in {"parent_id", "location_id", "template_id"} :
       /\ Field(body, f) # PyNone
       /\ Field(body, f)[1] \notin DOMAIN RefTable(f)

\* C17: a create_asset or update_asset request of an admitted caller that
\* supplies a parent_id, location_id or template_id without a row, whatever the
\* value of the id, is answered with NotFound and leaves the assets unchanged.
C17_DanglingReferenceIsNotFound ==
    [][ /\ ( /\ Handles("create_asset")
             /\ CallerAdmitted
             /\ Dangling(req) )
           => (NotFound(resp') /\ assets' = assets)
        /\ ( /\ Handles("update_asset")
             /\ CallerAdmitted
             /\ req.asset_id \in DOMAIN assets
             /\ Dangling(req.asset_in) )
           => (NotFound(resp') /\ assets' = assets) ]_vars

-----------------------------------------------------------------------------
(* C18 *)

\* The pending create_asset request names a template that has a row.
FromTemplate ==
    /\ Field(req, "template_id") # PyNone
    /\ Field(req, "template_id")[1] \in DOMAIN templates

\* C18: an asset created with a template keeps the asset_type its request
\* supplied and takes the template's only when the request supplied none; it
\* keeps a non-empty supplied config and takes the template's default_config
\* when the supplied config is empty or unset.
C18_TemplateFillsOnlyUnsetFields ==
    [][ ( /\ Handles("create_asset")
          /\ Succeeded(resp')
          /\ FromTemplate )
        => LET new  == assets'[nextAssetId]
               tmpl == templates[req.template_id[1]]
           IN  /\ new.asset_type = IF Field(req, "asset_type") # PyNone
                                   THEN req.asset_type
                                   ELSE tmpl.asset_type
               /\ TruthyDict(Field(req, "config")) => new.config = req.config
               /\ ( /\ ~TruthyDict(Field(req, "config"))
                    /\ TruthyDict(tmpl.default_config) )
                  => new.config = tmpl.default_config
               /\ ( /\ ~TruthyDict(Field(req, "config"))
                    /\ ~TruthyDict(tmpl.default_config) )
                  => ~TruthyDict(new.config) ]_vars

-----------------------------------------------------------------------------
(* C19 *)

\* The asset has a template with a row.
HasTemplate(asset_id) ==
    /\ asset_id \in DOMAIN assets
    /\ assets[asset_id].template_id # PyNone
    /\ assets[asset_id].template_id[1] \in DOMAIN templates

-----------------------------------------------------------------------------
(* C20 *)

\* C20: what an asset takes from its template it takes at creation only.
\* update_asset_template leaves the asset_type and the config of every asset
\* unchanged, and update_asset gives an asset the asset_type and the config its
\* request supplies and keeps the ones it had otherwise, never the template's.
C20_TemplateAppliedOnceAtCreation ==
    [][ /\ Handles("update_asset_template")
           => \A a \in DOMAIN assets :
                 /\ assets'[a].asset_type = assets[a].asset_type
                 /\ assets'[a].config = assets[a].config
        /\ (Handles("update_asset") /\ req.asset_id \in DOMAIN assets)
           => \A f \in {"asset_type", "config"} :
                 assets'[req.asset_id][f] =
                    IF Succeeded(resp') /\ f \in DOMAIN req.asset_in
                    THEN req.asset_in[f]
                    ELSE assets[req.asset_id][f] ]_vars

\* The default_config of template 1 has been replaced and an asset of that
\* template still has the config it was created with.
C20_Witness ==
    /\ Done
    /\ req.op = "update_asset_template"
    /\ Succeeded(resp)
    /\ req.template_id = 1
    /\ req.template_in = [default_config |-> Some([limits |-> [max |-> 2]])]
    /\ templates[1].default_config = Some([limits |-> [max |-> 2]])
    /\ \E a \in DOMAIN assets :
          /\ assets[a].template_id = Some(1)
          /\ assets[a].config = Some([limits |-> [max |-> 1]])

-----------------------------------------------------------------------------
(* C28 *)

\* C28: a role that get_manageable_roles gives at least one role to manage
\* holds user:create and user:admin, the permissions create_new_user and
\* update_user_role_by_id ask for before they look at the manageable roles.
C28_ManageableRolesAreAdministrable ==
    call.fn = "get_manageable_roles"
       => \A target \in SeqToSet(call.ret) :
             /\ has_permission(call.user_role, "user:create")
             /\ has_permission(call.user_role, "user:admin")

-----------------------------------------------------------------------------
(* C23 *)

\* The users whose email and password are the ones given.
Credentialed(email, password) ==
    {i \in DOMAIN users :
        /\ users[i].email = email
        /\ users[i].hashed_password = get_password_hash(password)}

\* The step from users to users' is one login of user i and touches no other.
CountsOneLogin(i) ==
    /\ users'[i].login_count = users[i].login_count + 1
    /\ users'[i].failed_login_attempts = 0
    /\ users'[i].last_login # PyNone
    /\ \A j \in DOMAIN users : j # i => users'[j] = users[j]
    /\ DOMAIN users' = DOMAIN users

\* C23: authenticate_user, called directly or by the login endpoint, with the
\* email of a user and that user's password adds exactly 1 to the user's
\* login_count, sets failed_login_attempts to 0 and sets last_login, changes
\* no other user and returns the user; with an unknown email or a wrong
\* password it returns None.
C23_LoginCountsOnce ==
    [][ /\ Handles("crud_user.authenticate_user")
           => LET who == Credentialed(req.email, req.password)
              IN  /\ \A i \in who : CountsOneLogin(i) /\ resp'.user = Some(i)
                  /\ who = {} => resp'.user = PyNone
        /\ Handles("login_access_token")
           => LET who == Credentialed(req.username, req.password)
              IN  /\ \A i \in who : CountsOneLogin(i)
                  /\ who = {} => ~Succeeded(resp') ]_vars

\* The second user has logged in for the second time.
C23_Witness ==
    /\ Done
    /\ req.op = "crud_user.authenticate_user"
    /\ resp.user = Some(2)
    /\ users[2].login_count = 2
    /\ users[2].last_login # PyNone
    /\ users[1].login_count = 0

-----------------------------------------------------------------------------
(* C30 *)

\* C30: a login that is answered with 401 or with 400 "Inactive user" issues
\* no token and leaves login_count, last_login and failed_login_attempts of
\* every user as they were.
C30_RejectedLoginChangesNothing ==
    [][ ( /\ Handles("login_access_token")
          /\ resp'.status \in {400, 401} )
        => /\ resp'.detail # "bearer"
           /\ \A i \in DOMAIN users :
                 /\ users'[i].login_count = users[i].login_count
                 /\ users'[i].last_login = users[i].last_login
                 /\ users'[i].failed_login_attempts
                       = users[i].failed_login_attempts ]_vars

-----------------------------------------------------------------------------
(* C26 *)

\* C26: a user whose deleted_at is set is not active, so the user cannot pass
\* get_current_active_user, until restore_user clears deleted_at.
C26_DeletedUserIsInactive ==
    \A i \in DOMAIN users :
       users[i].deleted_at # PyNone
          => /\ ~users[i].is_active
             /\ get_current_active_user(users[i]) # PyNone

-----------------------------------------------------------------------------
(* C27 *)

\* C27: is_active is true exactly for the users whose status is active.
C27_ActiveIffStatusActive ==
    \A i \in DOMAIN users :
       users[i].is_active <=> (users[i].status = "active")

\* A user was suspended by update_user_role and is not active; another one
\* is active.
C27_Witness ==
    /\ Done
    /\ req.op = "crud_user.update_user_role"
    /\ req.status = Some("suspended")
    /\ req.user_id \in DOMAIN users
    /\ users[req.user_id].status = "suspended"
    /\ ~users[req.user_id].is_active
    /\ \E j \in DOMAIN users : users[j].is_active /\ users[j].status = "active"

-----------------------------------------------------------------------------
(* C22 *)

\* The columns of assets that accept NULL (models/asset.py, class Asset).
Nullable == {"parent_id", "code", "location_id", "template_id", "config"}

\* C22: update_asset of an existing asset leaves every field its body omits
\* as it was and every other asset row unchanged; when it succeeds each
\* supplied field has the supplied value; and a null supplied for a field that
\* is not nullable does not clear the field.
C22_PatchTouchesOnlySuppliedFields ==
    [][ (Handles("update_asset") /\ req.asset_id \in DOMAIN assets)
        => LET old == assets[req.asset_id]
               new == assets'[req.asset_id]
           IN  /\ DOMAIN assets' = DOMAIN assets
               /\ \A other \in DOMAIN assets \ {req.asset_id} :
                     assets'[other] = assets[other]
               /\ \A f \in DOMAIN old \ DOMAIN req.asset_in : new[f] = old[f]
               /\ \A f \in DOMAIN req.asset_in :
                     /\ Succeeded(resp') => new[f] = req.asset_in[f]
                     /\ ~Succeeded(resp') => new[f] = old[f]
                     /\ (req.asset_in[f] = PyNone /\ f \notin Nullable)
                           => new[f] = old[f] /\ new[f] # PyNone ]_vars

\* An update that supplied asset_type and config has run on an asset with a
\* code while another asset exists: the code is still there.
C22_Witness ==
    /\ Done
    /\ req.op = "update_asset"
    /\ Succeeded(resp)
    /\ DOMAIN req.asset_in = {"asset_type", "config"}
    /\ req.asset_id \in DOMAIN assets
    /\ assets[req.asset_id].code = Some("INV-1")
    /\ assets[req.asset_id].asset_type = Some("panel")
    /\ assets[req.asset_id].config = Some([limits |-> [max |-> 1]])
    /\ \E other \in DOMAIN assets :
          other # req.asset_id /\ assets[other].asset_type = Some("inverter")

-----------------------------------------------------------------------------
(* C24 *)

\* C24: in every state that create_asset, update_asset and delete_asset
\* requests served at the same time can reach, each a check step followed by
\* its write steps, the parent_id of every asset is null or the id of an asset
\* that exists; a delete whose child check ran before a child was created
\* leaves no asset that refers to the deleted one.
C24_ParentAlwaysExists ==
    \A i \in DOMAIN assets :
       assets[i].parent_id # PyNone => assets[i].parent_id[1] \in DOMAIN assets

\* A delete has passed its child check, a child was committed under the asset
\* before the flush loaded the children, and the delete has gone through: the
\* child is still there and has no parent.
C24_Witness ==
    \E t \in Threads :
       /\ threads[t].pc = "done"
       /\ threads[t].r.op = "delete_asset"
       /\ threads[t].resp = Response(200, "true")
       /\ threads[t].seen # {}
       /\ threads[t].r.asset_id \notin DOMAIN assets
       /\ \A i \in threads[t].seen :
             i \in DOMAIN assets /\ assets[i].parent_id = PyNone

-----------------------------------------------------------------------------
(* C21 *)

\* The template of the pending create_asset_item request is a license with a
\* license_duration_days.
LicenseWithDuration ==
    LET tmpl == templates[req.item_in.template_id[1]]
    IN  tmpl.category = Some("license") /\ tmpl.license_duration_days # PyNone

\* C21: the item a create_asset_item request inserts expires at its creation
\* time plus the license_duration_days of its template exactly when the
\* template is a license and has a license_duration_days, whatever expires_at
\* the caller sent; otherwise its expires_at is the one the caller sent, null
\* included.
C21_LicenseExpiryFromTemplate ==
    [][ ( /\ Handles("create_asset_item")
          /\ Succeeded(resp') )
        => LET item == items'[serials.asset_items]
               tmpl == templates[req.item_in.template_id[1]]
           IN  item.expires_at =
                  IF LicenseWithDuration
                  THEN Some(item.deployed_at + tmpl.license_duration_days[1])
                  ELSE req.item_in.expires_at ]_vars

-----------------------------------------------------------------------------
(* C29 *)

\* C29: in every state that create_store_inventory requests served at the same
\* time can reach, each an existence check followed by an insert, no two rows
\* of store_inventory have the same template_id.
C29_OneInventoryPerTemplate ==
    \A i, j \in DOMAIN inventories :
       i # j => inventories[i].template_id # inventories[j].template_id

-----------------------------------------------------------------------------
(* C25 *)

\* Every location_id and template_id of an asset, and every asset_id of a
\* sensor or an item, is null or the id of a row.
ReferencesResolve(db_assets, db_locations, db_templates, db_sensors, db_items) ==
    /\ \A i \in DOMAIN db_assets :
          /\ db_assets[i].location_id # PyNone
                => db_assets[i].location_id[1] \in DOMAIN db_locations
          /\ db_assets[i].template_id # PyNone
                => db_assets[i].template_id[1] \in DOMAIN db_templates
    /\ \A s \in DOMAIN db_sensors : db_sensors[s].asset_id \in DOMAIN db_assets
    /\ \A i \in DOMAIN db_items : db_items[i].asset_id \in DOMAIN db_assets

\* The pending request deletes a row: the tables as they would be if just that
\* row were taken out.
WithoutDeletedRow ==
    [assets    |-> IF req.op = "delete_asset"
                   THEN Remove(assets, req.asset_id) ELSE assets,
     locations |-> IF req.op = "delete_location"
                   THEN Remove(locations, req.location_id) ELSE locations,
     templates |-> IF req.op = "delete_asset_template"
                   THEN Remove(templates, req.template_id) ELSE templates]

\* The pending delete would leave a reference without its row.
LeavesDangling ==
    /\ req.op \in {"delete_location", "delete_asset_template", "delete_asset"}
    /\ ~ ReferencesResolve(WithoutDeletedRow.assets, WithoutDeletedRow.locations,
                           WithoutDeletedRow.templates, sensors, items)

\* A rejection with a structured error: a 4xx response with its detail.
StructuredError(r) == r.status \in 400 .. 499

\* C25: after every sequence of create and delete requests the location_id and
\* template_id of every asset and the asset_id of every sensor and item are
\* null or name a row, and a delete of a location, a template or an asset that
\* would leave such a reference without its row is rejected with a structured
\* error and changes no table.
C25_DeleteKeepsReferences ==
    [][ /\ ReferencesResolve(assets', locations', templates', sensors', items')
        /\ ( /\ Pending
             /\ resp' # NoResp
             /\ CallerAdmitted
             /\ LeavesDangling )
           => /\ StructuredError(resp')
              /\ UNCHANGED <<assets, sensors, templates, locations, items>> ]_vars

====
